---- MODULE Spec2Model ----
(***************************************************************************)
(* Model of the concurrent game-analysis core of chess-analyzer-desktop:   *)
(* GameProcessorPool.run (producer task, consumer loop, job tasks and      *)
(* their done callbacks) on top of EnginePool (availability queue, owned   *)
(* set, retire_and_replace tasks).  One action is one run of a coroutine   *)
(* between two suspension points of the asyncio event loop.                *)
(***************************************************************************)
EXTENDS Integers, Sequences, FiniteSets, TLC

\* ---- bounds of the model (run configuration values) ----
NumJobs == 2        \* games in the input stream
MaxConcurrency == 2 \* largest RunConfig.concurrency tried
PoolSize == 1       \* EnginePoolSettings.pool_size of a scheduled run
MaxRetries == 1     \* RunConfig.max_retries
MaxOpenSize == 5    \* largest pool_size tried when only opening the pool
\* engine processes the factory is ever asked for: pool_size at open, one per retire task
MaxEngines == MaxOpenSize + NumJobs * MaxRetries
NumFens == 2        \* distinct positions (FEN strings) that are asked for
MaxFens == 2        \* longest `fens` list passed to get_analyses_for_fens
MaxCalls == 2       \* calls of get_analyses_for_fens on one cache file

Jobs == 1..NumJobs
Engines == 1..MaxEngines
None == 0           \* Python None: the sentinel in the work queue, "no engine", "no game"
Fens == 1..NumFens
EngineIds == {1, 2}  \* engine.get_engine_identifier(): the engine build before and after an upgrade
\* CacheKey(fen, depth, multipv, engine_id); depth and multipv are fixed settings of the provider
CacheKeys == Fens \X EngineIds
FenLists == UNION {[1..n -> Fens] : n \in 0..MaxFens}
NoRow == 0          \* the table has no row for the key
CorruptRow == -1    \* the row's JSON cannot be decoded into engine lines
EmptyDict == [k \in {} |-> 0]
\* create_pipeline: InitialSetup, Analysis, Classification, Persistence, Annotation, Summary
NumStages == 6
AnnotationStage == 5
SummaryStage == 6
\* GameContext(...) as process_game builds it: summary and annotated_game are None
NoContext == [summary |-> FALSE, annotated_game |-> FALSE]
\* total_games of GameProcessorPool: the games the orchestrator counted in the input
total_games == NumJobs

MaxAttempts == 3    \* largest `attempts` argument tried for a decorated function
DefaultAttempts == 3   \* retry_with_backoff(attempts: int = 3, ...)
InitialBackoff == 5    \* initial_backoff_s = 0.5, in tenths of a second
MaxBackoff == 50       \* max_backoff_s = 5.0, in tenths of a second

MaxMoves == 3       \* longest game (number of slices) whose times are calculated
Colours == {"w", "b"}
NoHeader == <<>>    \* headers.get("TimeControl") is None
NoInc == -1         \* the TimeControl string has no '+' part
NoClock == -1       \* Python None for a clock reading or a time spent
NoComment == <<>>   \* a comment without a [%clk ...] tag

VARIABLES
    concurrency,      \* RunConfig.concurrency of this run
    pool_size,        \* EnginePoolSettings.pool_size of this run
    shutdown_event,   \* asyncio.Event shared by the run
    fillerPc,         \* producer task: "idle", "run", "done"
    srcIdx,           \* games already read from the stream
    work_queue,       \* asyncio.Queue items (job ids, None)
    unfinished_tasks, \* asyncio.Queue._unfinished_tasks of work_queue
    mainPc,           \* position of run(): "init","aborted","loop","get","sem","join","gather","returned"
    game,             \* the game the consumer loop holds while waiting for the gate
    semaphore,        \* value of asyncio.Semaphore(config.concurrency)
    taskPc,           \* per job, its current attempt: "none","acquire","waiting","lent","done"
    taskEngine,       \* engine local of the attempt (None when not acquired)
    taskOutcome,      \* how the finished attempt ended
    taskCancel,       \* task.cancel() was requested
    pending_tasks,    \* jobs with a task whose done callback has not run
    retry_counts,     \* self._retry_counts
    all_results,      \* result list of run()
    is_closed,        \* EnginePool._is_closed
    closePc,          \* position of EnginePool.__aexit__: "none", "lock", "done"
    pool,             \* EnginePool._pool (availability queue)
    dropped,          \* observer: handles that release() dropped because the pool was closed
    instances,        \* EnginePool._instances (owned set)
    engineState,      \* per engine: "none","ok","crashed","closed"
    enginesCreated,   \* factory calls that were given an engine id so far
    lock,             \* engine whose retire task holds EnginePool._lock, or None
    retireClose,      \* per engine, retire tasks that have not yet closed it
    retireLock,       \* per engine, retire tasks waiting for the lock
    task_done_calls,  \* observer: work_queue.task_done() calls made for the job
    jobOutcome,       \* observer: the terminal outcome the done callback gave the job
    dispatches,       \* observer: tasks created for the job
    orchPc,           \* position of AnalysisOrchestrator.run
    report,           \* the RunReport that run() returns, NoReport before that
    propagated,       \* the exception that left run(), "none" if none did
    cache_open,       \* SqliteCacheService is inside its `async with`
    pgn_write_queue,  \* items of AnalysisOrchestrator._pgn_write_queue
    pgn_unfinished,   \* asyncio.Queue._unfinished_tasks of _pgn_write_queue
    writerPc,         \* position of the _pgn_writer_task
    writerItem,       \* the game the writer task took from the queue
    writerCancel,     \* the writer task was cancelled by _shutdown
    written,          \* the games appended to the output file, in order
    provPc,           \* position of AnalysisProvider.get_analyses_for_fens: "idle","lookup","engine","store","returned","raised"
    calls,            \* calls of get_analyses_for_fens made so far
    fens,             \* argument `fens` of the current call
    engine_id,        \* engine.get_engine_identifier() of the current call
    cache,            \* rows of engine_analysis_cache per key: NoRow, CorruptRow or a result
    cached_results,   \* local of the call: what the batch lookup returned
    engine_calls,     \* observer: arguments of engine.analyze_fens_batch in the current call
    results_to_store, \* local of the call: the fresh results, by cache key
    returned,         \* the dict the call returned
    provExc,          \* the exception that left the call, "none" if none did
    pipePc,           \* position of process_game for the current attempt: "idle","stage","returned","raised","handled"
    pipeJob,          \* the job of the current attempt
    stageIdx,         \* index in the pipeline of the stage that is running
    executed,         \* observer: the stages whose execute() was called in this attempt, in order
    stagesReturned,   \* observer: the stage executions of this attempt that have returned
    abortedAt,        \* observer: the index of the stage before which the flag was found set, 0 if none
    ctx,              \* GameContext fields summary and annotated_game (TRUE: not None)
    pipeResult,       \* the ProcessedGameResult of process_game
    pipeExc,          \* the exception that left process_game, "none" if none did
    progress_calls,   \* observer: the argument pairs the progress callback was called with, in order
    \* --- one call of a function decorated with retry_with_backoff (utils/retry.py) ---
    retryPc,          \* "idle", "calling" (inside func), "sleeping" (asyncio.sleep), "returned", "raised"
    retryOp,          \* the decorated function: "generic", or the cache's "lookup" / "store"
    attempts,         \* the decorator's `attempts` argument
    attempt,          \* the loop variable `attempt`
    func_outcomes,    \* observer: what each call of func ended with ("ok" or the exception's class)
    db_faults,        \* observer: what the database did in each call of a cache method
    current_delay,    \* `current_delay`, in tenths of a second
    waited,           \* observer: the wait_time of each asyncio.sleep, in tenths of a second
    retryExc,         \* the exception that left the wrapper, "none" if none did
    \* --- the time calculation of ClassificationStage.execute ---
    clockPc,          \* "idle", "loop" (inside the for loop over the slices), "done"
    time_control,     \* the TimeControl header: NoHeader or [base, inc] (inc NoInc: no '+' part)
    slices,           \* parsed_game.slices: [player_color, comment] per move
    last_clock,       \* the dict last_clock
    time_spent_per_move  \* the list time_spent_per_move

vars == <<concurrency, pool_size, shutdown_event, fillerPc, srcIdx, work_queue, unfinished_tasks, mainPc, game,
          semaphore, taskPc, taskEngine, taskOutcome, taskCancel, pending_tasks,
          retry_counts, all_results, is_closed, closePc, pool, dropped, instances, engineState,
          enginesCreated, lock, retireClose, retireLock, task_done_calls,
          jobOutcome, dispatches, orchPc, report, propagated, cache_open,
          pgn_write_queue, pgn_unfinished, writerPc, writerItem, writerCancel, written,
          provPc, calls, fens, engine_id, cache, cached_results, engine_calls, results_to_store,
          returned, provExc, pipePc, pipeJob, stageIdx, executed, stagesReturned, abortedAt, ctx,
          pipeResult, pipeExc, progress_calls,
          retryPc, retryOp, attempts, attempt, func_outcomes, db_faults, current_delay, waited, retryExc,
          clockPc, time_control, slices, last_clock, time_spent_per_move>>

schedVars == <<work_queue, unfinished_tasks, pending_tasks, retry_counts, all_results,
               task_done_calls, jobOutcome>>
taskVars == <<taskPc, taskEngine, taskOutcome>>
poolVars == <<is_closed, closePc, pool, dropped, instances, engineState, enginesCreated>>
retireVars == <<lock, retireClose, retireLock>>
writerVars == <<pgn_write_queue, pgn_unfinished, writerPc, writerItem, writerCancel, written>>
orchVars == <<orchPc, report, propagated, cache_open, writerVars>>
provVars == <<provPc, calls, fens, engine_id, cache, cached_results, engine_calls, results_to_store,
              returned, provExc>>
\* the collaborators of one job attempt, which neither the scheduler nor the orchestrator touches
pipeVars == <<pipePc, pipeJob, stageIdx, executed, stagesReturned, abortedAt, ctx, pipeResult, pipeExc>>
retryVars == <<retryPc, retryOp, attempts, attempt, func_outcomes, db_faults, current_delay, waited, retryExc>>
clockVars == <<clockPc, time_control, slices, last_clock, time_spent_per_move>>
\* the utilities, which only their own callers touch
utilVars == <<retryVars, clockVars>>
auxVars == <<provVars, pipeVars, utilVars>>
\* the scheduler's and the pool's internals, which AnalysisOrchestrator never touches
detailVars == <<concurrency, pool_size, fillerPc, srcIdx, work_queue, unfinished_tasks, game,
                semaphore, taskPc, taskEngine, taskOutcome, taskCancel, pending_tasks,
                retry_counts, task_done_calls, dispatches, lock, retireClose, retireLock, auxVars,
                progress_calls>>

\* every variable of the run itself
runVars == <<concurrency, pool_size, fillerPc, srcIdx, work_queue, unfinished_tasks, game,
             semaphore, taskPc, taskEngine, taskOutcome, taskCancel, pending_tasks,
             retry_counts, task_done_calls, dispatches, lock, retireClose, retireLock,
             poolVars, orchVars, shutdown_event, mainPc, all_results, jobOutcome>>
\* what one attempt's pipeline and the handling of its result leave alone
attemptFrozen == <<concurrency, pool_size, fillerPc, srcIdx, work_queue, unfinished_tasks, game,
                   semaphore, taskPc, taskEngine, taskOutcome, taskCancel, pending_tasks,
                   retry_counts, task_done_calls, dispatches, lock, retireClose, retireLock,
                   poolVars, orchPc, report, propagated, cache_open, writerPc, writerItem,
                   writerCancel, written, mainPc, jobOutcome, provVars, utilVars>>

\* RunReport(results=..., processed_game_count=..., warnings=[...])
RunReport(results, count, warnings) ==
    [results |-> results, processed_game_count |-> count, warnings |-> warnings]
NoReport == RunReport(<<>>, -1, <<>>)

Range(s) == {s[i] : i \in 1..Len(s)}
Live == {j \in Jobs : taskPc[j] \in {"acquire", "waiting", "lent"}}

\* The state after construction of a run whose pool is configured with n engines
InitSized(n) ==
    /\ concurrency \in 1..MaxConcurrency
    /\ pool_size = n
    /\ shutdown_event = FALSE
    /\ fillerPc = "idle"
    /\ srcIdx = 0
    /\ work_queue = <<>>
    /\ unfinished_tasks = 0
    /\ mainPc = "init"
    /\ game = None
    /\ semaphore = concurrency
    /\ taskPc = [j \in Jobs |-> "none"]
    /\ taskEngine = [j \in Jobs |-> None]
    /\ taskOutcome = [j \in Jobs |-> "none"]
    /\ taskCancel = [j \in Jobs |-> FALSE]
    /\ pending_tasks = {}
    /\ retry_counts = [j \in Jobs |-> 0]
    /\ all_results = <<>>
    /\ is_closed = TRUE
    /\ closePc = "none"
    /\ pool = <<>>
    /\ dropped = {}
    /\ instances = {}
    /\ engineState = [e \in Engines |-> "none"]
    /\ enginesCreated = 0
    /\ lock = None
    /\ retireClose = [e \in Engines |-> 0]
    /\ retireLock = [e \in Engines |-> 0]
    /\ task_done_calls = [j \in Jobs |-> 0]
    /\ jobOutcome = [j \in Jobs |-> "none"]
    /\ dispatches = [j \in Jobs |-> 0]
    /\ orchPc = "start"
    /\ report = NoReport
    /\ propagated = "none"
    /\ cache_open = FALSE
    /\ pgn_write_queue = <<>>
    /\ pgn_unfinished = 0
    /\ writerPc = "none"
    /\ writerItem = None
    /\ writerCancel = FALSE
    /\ written = <<>>
    /\ provPc = "idle"
    /\ calls = 0
    /\ fens = <<>>
    /\ engine_id = None
    /\ cache = [k \in CacheKeys |-> NoRow]
    /\ cached_results = EmptyDict
    /\ engine_calls = <<>>
    /\ results_to_store = EmptyDict
    /\ returned = EmptyDict
    /\ provExc = "none"
    /\ pipePc = "idle"
    /\ pipeJob = None
    /\ stageIdx = 0
    /\ executed = <<>>
    /\ stagesReturned = 0
    /\ abortedAt = 0
    /\ ctx = NoContext
    /\ pipeResult = NoContext
    /\ pipeExc = "none"
    /\ progress_calls = <<>>
    /\ retryPc = "idle"
    /\ retryOp = "none"
    /\ attempts = 0
    /\ attempt = 0
    /\ func_outcomes = <<>>
    /\ db_faults = <<>>
    /\ current_delay = 0
    /\ waited = <<>>
    /\ retryExc = "none"
    /\ clockPc = "idle"
    /\ time_control = NoHeader
    /\ slices = <<>>
    /\ last_clock = [c \in Colours |-> NoClock]
    /\ time_spent_per_move = <<>>

Init == InitSized(PoolSize)

\* ---------------------------------------------------------------------------
\* asyncio.Queue primitives as the code uses them
\* ---------------------------------------------------------------------------
\* Queue.put_nowait on the unbounded work queue: append, count the item as unfinished
QueuePut(q, item) == Append(q, item)
\* Queue.get on a non-empty queue: the head is removed from the queue
QueueGet(q) == Tail(q)
\* self._pool.get() in EnginePool.acquire: the engine handed out leaves the queue
PoolGetKeeps(q) == q
PoolGet(q) == Tail(q)
\* Queue.full() of the availability queue (maxsize = pool_size)
PoolFull(q) == Len(q) >= pool_size

\* ---------------------------------------------------------------------------
\* EnginePool
\* ---------------------------------------------------------------------------
\* The handles of S in the order of their factory calls (the order of the
\* results of asyncio.gather)
RECURSIVE InCallOrder(_)
InCallOrder(S) ==
    IF S = {} THEN <<>>
    ELSE LET m == CHOOSE x \in S : \A y \in S : y <= x
         IN Append(InCallOrder(S \ {m}), m)

\* __aenter__ raises RuntimeError: `if not self._instances`
OpenRaisesOnAnyFailure(S) == S # 1..pool_size
OpenRaises(S) == S = {}

\* EnginePool.__aenter__: the factory calls numbered in S succeed, the others
\* of the pool_size calls fail (_create_new_instance returns None)
EnginePool_Open(S) ==
    /\ S \subseteq 1..pool_size
    /\ is_closed' = FALSE
    /\ enginesCreated' = pool_size
    /\ engineState' = [e \in Engines |-> IF e \in S THEN "ok" ELSE "none"]
    /\ instances' = S
    /\ pool' = InCallOrder(S)
    /\ UNCHANGED <<closePc, dropped>>

\* The pool is opened and, unless that raises, GameProcessorPool.run is started
EnginePool_Enter(S) ==
    /\ mainPc = "init"
    /\ EnginePool_Open(S)
    /\ IF OpenRaises(S)
       THEN \* RuntimeError: no engine could be created, the run is never started
            /\ mainPc' = "aborted"
            /\ UNCHANGED fillerPc
       ELSE \* the orchestrator goes on to GameProcessorPool.run, which creates the producer task
            /\ mainPc' = "loop"
            /\ fillerPc' = "run"
    /\ UNCHANGED <<auxVars, progress_calls, orchVars, concurrency, pool_size, shutdown_event, srcIdx, game, semaphore, taskCancel, dispatches>>
    /\ UNCHANGED <<schedVars, taskVars, retireVars>>

\* EnginePool.release: the availability queue after release(e); the caller has
\* checked that put_nowait does not raise QueueFull
ReleasedPool(q, e) == IF is_closed THEN q ELSE Append(q, e)
\* EnginePool.release: `if self._is_closed: return`, the handle is dropped
DroppedAfter(e) == IF is_closed THEN dropped \cup {e} ELSE dropped
\* put_nowait in EnginePool.release raises QueueFull
ReleaseRaises(q) == ~is_closed /\ PoolFull(q)

\* retire_and_replace, first await: failed_engine.close()
Retire_Close(e) ==
    /\ retireClose[e] > 0
    /\ retireClose' = [retireClose EXCEPT ![e] = @ - 1]
    /\ retireLock' = [retireLock EXCEPT ![e] = @ + 1]
    /\ engineState' = [engineState EXCEPT ![e] = "closed"]
    /\ UNCHANGED <<auxVars, progress_calls, orchVars, concurrency, pool_size, shutdown_event, fillerPc, srcIdx, mainPc, game, semaphore, taskCancel,
                   dispatches, lock, is_closed, closePc, pool, dropped, instances, enginesCreated>>
    /\ UNCHANGED <<schedVars, taskVars>>

\* self._instances.remove(failed_engine) finds the engine (no ValueError)
RemoveAlwaysSucceeds(e, owned) == TRUE
RemoveSucceeds(e, owned) == e \in owned
\* the owned set after self._instances.remove(failed_engine)
RemoveKeeps(owned, e) == owned
RemoveFrom(owned, e) == owned \ {e}

\* retire_and_replace under the lock: remove the engine from the owned set, or
\* return when another task removed it already (ValueError)
Retire_Remove(e) ==
    /\ retireLock[e] > 0
    /\ lock = None
    /\ retireLock' = [retireLock EXCEPT ![e] = @ - 1]
    /\ IF RemoveSucceeds(e, instances)
       THEN /\ instances' = RemoveFrom(instances, e)
            /\ lock' = e          \* the lock is kept across await _create_new_instance()
       ELSE /\ UNCHANGED instances
            /\ lock' = None
    /\ UNCHANGED <<auxVars, progress_calls, orchVars, concurrency, pool_size, shutdown_event, fillerPc, srcIdx, mainPc, game, semaphore, taskCancel,
                   dispatches, retireClose, is_closed, closePc, pool, dropped, engineState, enginesCreated>>
    /\ UNCHANGED <<schedVars, taskVars>>

\* retire_and_replace after _create_new_instance returned: created says whether
\* the factory call succeeded
Retire_Replace(created) ==
    /\ lock # None
    /\ lock' = None
    /\ IF created
       THEN /\ enginesCreated < MaxEngines
            /\ enginesCreated' = enginesCreated + 1
            /\ engineState' = [engineState EXCEPT ![enginesCreated + 1] = "ok"]
            /\ instances' = instances \cup {enginesCreated + 1}
            /\ IF ReleaseRaises(pool)
               THEN UNCHANGED <<pool, dropped>>   \* QueueFull ends the retire task, the new engine is owned but not available
               ELSE /\ pool' = ReleasedPool(pool, enginesCreated + 1)
                    /\ dropped' = DroppedAfter(enginesCreated + 1)
       ELSE UNCHANGED <<enginesCreated, engineState, instances, pool, dropped>>
    /\ UNCHANGED <<auxVars, progress_calls, orchVars, concurrency, pool_size, shutdown_event, fillerPc, srcIdx, mainPc, game, semaphore, taskCancel,
                   dispatches, retireClose, retireLock, is_closed, closePc>>
    /\ UNCHANGED <<schedVars, taskVars>>

\* ---------------------------------------------------------------------------
\* GameProcessorPool._process_one_game_wrapper (one task per job attempt)
\* ---------------------------------------------------------------------------
\* The finally block of the wrapper for attempt j that holds engine e (None when
\* acquire did not return) and is about to end with `outcome`: release the
\* engine, then release the concurrency gate.  QueueFull raised by release
\* replaces the outcome and skips semaphore.release().
\* self._semaphore.release() in the finally block
SemaphoreKept(s) == s
SemaphoreReleased(s) == s + 1

Wrapper_Finally(j, e, outcome, q) ==
    /\ taskPc' = [taskPc EXCEPT ![j] = "done"]
    /\ taskEngine' = [taskEngine EXCEPT ![j] = e]
    /\ IF e # None /\ ReleaseRaises(q)
       THEN /\ pool' = q
            /\ UNCHANGED dropped
            /\ UNCHANGED semaphore
            /\ taskOutcome' = [taskOutcome EXCEPT ![j] = "other"]
       ELSE /\ pool' = IF e # None THEN ReleasedPool(q, e) ELSE q
            /\ dropped' = IF e # None THEN DroppedAfter(e) ELSE dropped
            /\ semaphore' = SemaphoreReleased(semaphore)
            /\ taskOutcome' = [taskOutcome EXCEPT ![j] = outcome]

\* EnginePool.acquire: `if self._is_closed: raise RuntimeError`
AcquireNeverRaises == FALSE
AcquireRaises == is_closed

\* acquire returns the head of the availability queue.  is_healthy() of a
\* closed engine returns False without suspending, so the EngineError and the
\* finally block run in the same step.
Wrapper_Take(j) ==
    IF engineState[Head(pool)] = "closed"
    THEN Wrapper_Finally(j, Head(pool), "engine", PoolGet(pool))
    ELSE /\ pool' = PoolGet(pool)
         /\ taskPc' = [taskPc EXCEPT ![j] = "lent"]
         /\ taskEngine' = [taskEngine EXCEPT ![j] = Head(pool)]
         /\ UNCHANGED <<semaphore, taskOutcome, dropped>>

\* engine = await self._engine_pool.acquire(): raises on a closed pool, returns
\* a handle that is available, or suspends in self._pool.get()
Wrapper_Acquire(j) ==
    /\ taskPc[j] = "acquire"
    /\ ~taskCancel[j]
    /\ IF AcquireRaises
       THEN \* RuntimeError from acquire: engine stays None
            Wrapper_Finally(j, None, "other", pool)
       ELSE IF pool # <<>>
       THEN Wrapper_Take(j)
       ELSE /\ taskPc' = [taskPc EXCEPT ![j] = "waiting"]
            /\ UNCHANGED <<taskEngine, taskOutcome, pool, dropped, semaphore>>
    /\ UNCHANGED <<auxVars, progress_calls, orchVars, concurrency, pool_size, shutdown_event, fillerPc, srcIdx, mainPc, game, taskCancel, dispatches,
                   is_closed, closePc, instances, engineState, enginesCreated>>
    /\ UNCHANGED <<schedVars, retireVars>>

\* a handle is put on the availability queue while the task is suspended in
\* self._pool.get()
Wrapper_Wake(j) ==
    /\ taskPc[j] = "waiting"
    /\ ~taskCancel[j]
    /\ pool # <<>>
    /\ Wrapper_Take(j)
    /\ UNCHANGED <<auxVars, progress_calls, orchVars, concurrency, pool_size, shutdown_event, fillerPc, srcIdx, mainPc, game, taskCancel, dispatches,
                   is_closed, closePc, instances, engineState, enginesCreated>>
    /\ UNCHANGED <<schedVars, retireVars>>

\* Outcomes of the health check and of process_game for an attempt holding e:
\* a crashed or closed engine fails the health check (EngineError carrying e);
\* a healthy one runs the pipeline, which returns a summary ("ok"), returns a
\* cleared context because the shutdown flag was seen ("nosummary"), or raises
\* PgnParsingError ("pgn"), EngineAnalysisError ("engine") or another exception.
AttemptOutcomes(e) ==
    IF engineState[e] # "ok" THEN {"engine"}
    ELSE {"ok", "pgn", "engine", "other"} \cup (IF shutdown_event THEN {"nosummary"} ELSE {})

\* The rest of the wrapper after acquire: health check, process_game, finally.
Wrapper_Finish(j, outcome) ==
    /\ taskPc[j] = "lent"
    /\ ~taskCancel[j]
    /\ outcome \in AttemptOutcomes(taskEngine[j])
    /\ engineState' = IF outcome = "engine" /\ engineState[taskEngine[j]] = "ok"
                      THEN [engineState EXCEPT ![taskEngine[j]] = "crashed"]
                      ELSE engineState
    /\ Wrapper_Finally(j, taskEngine[j], outcome, pool)
    /\ UNCHANGED <<auxVars, progress_calls, orchVars, concurrency, pool_size, shutdown_event, fillerPc, srcIdx, mainPc, game, taskCancel, dispatches,
                   is_closed, closePc, instances, enginesCreated>>
    /\ UNCHANGED <<schedVars, retireVars>>

\* A cancelled task gets CancelledError at the await it is suspended in.
Wrapper_Cancelled(j) ==
    /\ taskPc[j] \in {"acquire", "waiting", "lent"}
    /\ taskCancel[j]
    /\ Wrapper_Finally(j, taskEngine[j], "cancelled", pool)
    /\ UNCHANGED <<auxVars, progress_calls, orchVars, concurrency, pool_size, shutdown_event, fillerPc, srcIdx, mainPc, game, taskCancel, dispatches,
                   is_closed, closePc, instances, engineState, enginesCreated>>
    /\ UNCHANGED <<schedVars, retireVars>>

\* ---------------------------------------------------------------------------
\* GameProcessorPool.run: done callback
\* ---------------------------------------------------------------------------
\* if self._retry_counts[game_id] < self._config.max_retries
CanRetryOffByOne(count) == count <= MaxRetries
CanRetry(count) == count < MaxRetries

\* Does the callback branch taken for this outcome call work_queue.task_done()?
CallsTaskDoneAlways(outcome, count) == TRUE
CallsTaskDone(outcome, count) == ~(outcome = "engine" /\ CanRetry(count))

\* Does the callback take the requeue branch (EngineError with retry budget left)?
RequeuesValidationToo(outcome, count) == outcome \in {"engine", "pgn"} /\ CanRetry(count)
Requeues(outcome, count) == outcome = "engine" /\ CanRetry(count)

\* `if result and result.summary`: the attempt returned a result with a summary
AppendsEveryResult(outcome) == outcome \in {"ok", "nosummary"}
AppendsResult(outcome) == outcome = "ok"

\* `if self._progress_callback:` in the success branch: the callback is called
\* with (len(all_results), self._total_games) after the append
ReportsEveryOutcome(outcome) == TRUE
ReportsProgress(outcome) == AppendsResult(outcome)
ProgressArgs(results) == <<Len(results), total_games>>

\* `if result.annotated_game:` in the success branch: put_nowait on the writer queue
ForwardsArtifact(outcome, annotated) == AppendsResult(outcome) /\ annotated

\* The terminal outcome the callback gives the job, "none" on a requeue
TerminalOutcome(outcome, count) ==
    CASE outcome = "ok" -> "success"
      [] outcome = "nosummary" -> "aborted"
      [] outcome = "pgn" -> "validation"
      [] outcome = "engine" -> IF CanRetry(count) THEN "none" ELSE "exhausted"
      [] outcome = "cancelled" -> "cancelled"
      [] OTHER -> "failed"

\* Does the callback branch taken for this outcome start retire_and_replace?
StartsRetire(outcome, count) == outcome = "engine" /\ CanRetry(count)

DoneCallback(j) ==
    /\ taskPc[j] = "done"
    /\ pending_tasks' = pending_tasks \ {j}
    /\ taskPc' = [taskPc EXCEPT ![j] = "none"]
    /\ taskEngine' = [taskEngine EXCEPT ![j] = None]
    /\ taskOutcome' = [taskOutcome EXCEPT ![j] = "none"]
    /\ taskCancel' = [taskCancel EXCEPT ![j] = FALSE]
    /\ all_results' = IF AppendsResult(taskOutcome[j]) THEN Append(all_results, j) ELSE all_results
    /\ jobOutcome' = [jobOutcome EXCEPT ![j] = TerminalOutcome(taskOutcome[j], retry_counts[j])]
    /\ task_done_calls' = IF CallsTaskDone(taskOutcome[j], retry_counts[j])
                          THEN [task_done_calls EXCEPT ![j] = @ + 1]
                          ELSE task_done_calls
    /\ IF Requeues(taskOutcome[j], retry_counts[j])
       THEN /\ retry_counts' = [retry_counts EXCEPT ![j] = @ + 1]
            /\ work_queue' = QueuePut(work_queue, j)   \* put_nowait counts one more unfinished item
            /\ unfinished_tasks' = unfinished_tasks + 1
                                   - (IF CallsTaskDone(taskOutcome[j], retry_counts[j]) THEN 1 ELSE 0)
       ELSE /\ UNCHANGED <<retry_counts, work_queue>>
            /\ unfinished_tasks' = unfinished_tasks
                                   - (IF CallsTaskDone(taskOutcome[j], retry_counts[j]) THEN 1 ELSE 0)
    /\ IF StartsRetire(taskOutcome[j], retry_counts[j])
       THEN retireClose' = [retireClose EXCEPT ![taskEngine[j]] = @ + 1]
       ELSE UNCHANGED retireClose
    /\ progress_calls' = IF ReportsProgress(taskOutcome[j])
                         THEN Append(progress_calls, ProgressArgs(all_results'))
                         ELSE progress_calls
    /\ UNCHANGED <<auxVars, orchVars, concurrency, pool_size, shutdown_event, fillerPc, srcIdx, mainPc, game, semaphore, dispatches,
                   lock, retireLock>>
    /\ UNCHANGED poolVars

\* ---------------------------------------------------------------------------
\* GameProcessorPool.run: producer task and consumer loop
\* ---------------------------------------------------------------------------
\* _filler: one game read from the stream and put on the work queue
Filler_Put ==
    /\ fillerPc = "run"
    /\ srcIdx < NumJobs
    /\ ~shutdown_event
    /\ srcIdx' = srcIdx + 1
    /\ work_queue' = QueuePut(work_queue, srcIdx + 1)
    /\ unfinished_tasks' = unfinished_tasks + 1
    /\ UNCHANGED <<auxVars, progress_calls, orchVars, concurrency, pool_size, shutdown_event, fillerPc, mainPc, game, semaphore, taskCancel, dispatches,
                   pending_tasks, retry_counts, all_results, task_done_calls, jobOutcome>>
    /\ UNCHANGED <<taskVars, poolVars, retireVars>>

\* _filler: the stream is exhausted, or the flag was seen set: put the sentinel
Filler_End ==
    /\ fillerPc = "run"
    /\ srcIdx = NumJobs \/ shutdown_event
    /\ fillerPc' = "done"
    /\ work_queue' = QueuePut(work_queue, None)
    /\ unfinished_tasks' = unfinished_tasks + 1
    /\ UNCHANGED <<auxVars, progress_calls, orchVars, concurrency, pool_size, shutdown_event, srcIdx, mainPc, game, semaphore, taskCancel, dispatches,
                   pending_tasks, retry_counts, all_results, task_done_calls, jobOutcome>>
    /\ UNCHANGED <<taskVars, poolVars, retireVars>>

\* value of the gate after `await self._semaphore.acquire()` returned
SemaphoreNotTaken(s) == s
SemaphoreAcquired(s) == s - 1

\* create_task for game g, pending_tasks[task] = game, add_done_callback
Dispatch(g) ==
    /\ semaphore' = SemaphoreAcquired(semaphore)
    /\ taskPc' = [taskPc EXCEPT ![g] = "acquire"]
    /\ pending_tasks' = pending_tasks \cup {g}
    /\ dispatches' = [dispatches EXCEPT ![g] = @ + 1]
    /\ mainPc' = "loop"
    /\ game' = None
    /\ UNCHANGED <<taskCancel, fillerPc>>

\* Final cleanup of run(): cancel the outstanding tasks and gather them, or,
\* with none outstanding, cancel the producer and return
Cleanup ==
    IF pending_tasks = {}
    THEN /\ mainPc' = "returned"
         /\ fillerPc' = "done"
         /\ UNCHANGED taskCancel
    ELSE /\ mainPc' = "gather"
         /\ taskCancel' = [j \in Jobs |-> taskCancel[j] \/ j \in Live]
         /\ UNCHANGED fillerPc

\* What run() does with an item taken from the work queue
Consume(item) ==
    IF item = None
    THEN \* break; join the queue unless the flag is set
         /\ IF shutdown_event
            THEN Cleanup
            ELSE mainPc' = "join" /\ UNCHANGED <<taskCancel, fillerPc>>
         /\ UNCHANGED <<game, semaphore, taskPc, pending_tasks, dispatches>>
    ELSE IF semaphore > 0
         THEN Dispatch(item)
         ELSE /\ mainPc' = "sem"
              /\ game' = item
              /\ UNCHANGED <<semaphore, taskPc, pending_tasks, dispatches, taskCancel, fillerPc>>

\* top of the consumer loop: test the flag, then wait_for(work_queue.get())
Main_Loop ==
    /\ mainPc = "loop"
    /\ IF shutdown_event
       THEN /\ Cleanup
            /\ UNCHANGED <<game, semaphore, taskPc, pending_tasks, dispatches, work_queue>>
       ELSE IF work_queue # <<>>
            THEN /\ work_queue' = QueueGet(work_queue)
                 /\ Consume(Head(work_queue))
            ELSE /\ mainPc' = "get"
                 /\ UNCHANGED <<game, semaphore, taskPc, pending_tasks, dispatches, work_queue,
                                taskCancel, fillerPc>>
    /\ UNCHANGED <<auxVars, progress_calls, orchVars, concurrency, pool_size, shutdown_event, srcIdx, unfinished_tasks, taskEngine, taskOutcome,
                   retry_counts, all_results, task_done_calls, jobOutcome>>
    /\ UNCHANGED <<poolVars, retireVars>>

\* the suspended work_queue.get() is resumed with an item
Main_Get ==
    /\ mainPc = "get"
    /\ work_queue # <<>>
    /\ work_queue' = QueueGet(work_queue)
    /\ Consume(Head(work_queue))
    /\ UNCHANGED <<auxVars, progress_calls, orchVars, concurrency, pool_size, shutdown_event, srcIdx, unfinished_tasks, taskEngine, taskOutcome,
                   retry_counts, all_results, task_done_calls, jobOutcome>>
    /\ UNCHANGED <<poolVars, retireVars>>

\* asyncio.TimeoutError after one second on an empty queue: continue
Main_Timeout ==
    /\ mainPc = "get"
    /\ work_queue = <<>>
    /\ mainPc' = "loop"
    /\ UNCHANGED <<auxVars, progress_calls, orchVars, concurrency, pool_size, shutdown_event, fillerPc, srcIdx, game, semaphore, taskCancel, dispatches>>
    /\ UNCHANGED <<schedVars, taskVars, poolVars, retireVars>>

\* the suspended semaphore.acquire() is resumed
Main_Dispatch ==
    /\ mainPc = "sem"
    /\ semaphore > 0
    /\ Dispatch(game)
    /\ UNCHANGED <<auxVars, progress_calls, orchVars, concurrency, pool_size, shutdown_event, srcIdx, work_queue, unfinished_tasks, taskEngine, taskOutcome,
                   retry_counts, all_results, task_done_calls, jobOutcome>>
    /\ UNCHANGED <<poolVars, retireVars>>

\* run() is resumed from work_queue.join() (no unfinished item) or from the
\* gather of the cancelled tasks (all of them done)
Main_Resume ==
    /\ mainPc \in {"join", "gather"}
    /\ IF mainPc = "join"
       THEN /\ unfinished_tasks = 0
            /\ Cleanup
       ELSE /\ Live = {}
            /\ mainPc' = "returned"
            /\ fillerPc' = "done"
            /\ UNCHANGED taskCancel
    /\ UNCHANGED <<auxVars, progress_calls, orchVars, concurrency, pool_size, shutdown_event, srcIdx, game, semaphore, dispatches>>
    /\ UNCHANGED <<schedVars, taskVars, poolVars, retireVars>>

\* the embedding application sets the cancellation flag
SetShutdown ==
    /\ mainPc \notin {"init", "aborted", "returned"}
    /\ ~shutdown_event
    /\ shutdown_event' = TRUE
    /\ UNCHANGED <<auxVars, progress_calls, orchVars, concurrency, pool_size, fillerPc, srcIdx, mainPc, game, semaphore, taskCancel, dispatches>>
    /\ UNCHANGED <<schedVars, taskVars, poolVars, retireVars>>

Next ==
    \/ \E S \in SUBSET (1..MaxOpenSize) : EnginePool_Enter(S)
    \/ Filler_Put
    \/ Filler_End
    \/ Main_Loop
    \/ Main_Get
    \/ Main_Timeout
    \/ Main_Dispatch
    \/ Main_Resume
    \/ \E j \in Jobs : Wrapper_Acquire(j)
    \/ \E j \in Jobs : Wrapper_Wake(j)
    \/ \E j \in Jobs : \E o \in {"ok", "nosummary", "pgn", "engine", "other"} : Wrapper_Finish(j, o)
    \/ \E j \in Jobs : Wrapper_Cancelled(j)
    \/ \E j \in Jobs : DoneCallback(j)
    \/ \E e \in Engines : Retire_Close(e)
    \/ \E e \in Engines : Retire_Remove(e)
    \/ \E c \in BOOLEAN : Retire_Replace(c)
    \/ SetShutdown

Spec == Init /\ [][Next]_vars

\* ---------------------------------------------------------------------------
\* The engine pool under callers that do not respect its lifetime: the
\* scheduler is run on a pool that was never opened, and the pool is closed
\* while attempts and retire tasks are still in flight.
\* ---------------------------------------------------------------------------
\* GameProcessorPool.run is started with a pool whose __aenter__ never ran
Pool_RunUnopened ==
    /\ mainPc = "init"
    /\ mainPc' = "loop"
    /\ fillerPc' = "run"
    /\ UNCHANGED <<auxVars, progress_calls, orchVars, concurrency, pool_size, shutdown_event, srcIdx, game, semaphore, taskCancel, dispatches>>
    /\ UNCHANGED <<schedVars, taskVars, poolVars, retireVars>>

\* the owned set after self._instances.clear()
ClearKeeps(owned) == owned
Cleared(owned) == {}

\* EnginePool.__aexit__ up to `async with self._lock`
Pool_CloseBegin ==
    /\ ~is_closed
    /\ closePc = "none"
    /\ is_closed' = TRUE
    /\ closePc' = "lock"
    /\ UNCHANGED <<auxVars, progress_calls, orchVars, concurrency, pool_size, shutdown_event, fillerPc, srcIdx, mainPc, game, semaphore, taskCancel,
                   dispatches, pool, dropped, instances, engineState, enginesCreated>>
    /\ UNCHANGED <<schedVars, taskVars, retireVars>>

\* EnginePool.__aexit__ with the lock: close every owned handle (exceptions
\* are collected by gather), clear the owned set, empty the availability queue
Pool_CloseFinish ==
    /\ closePc = "lock"
    /\ lock = None
    /\ engineState' = [e \in Engines |-> IF e \in instances THEN "closed" ELSE engineState[e]]
    /\ instances' = Cleared(instances)
    /\ pool' = <<>>
    /\ closePc' = "done"
    /\ UNCHANGED dropped
    /\ UNCHANGED <<auxVars, progress_calls, orchVars, concurrency, pool_size, shutdown_event, fillerPc, srcIdx, mainPc, game, semaphore, taskCancel,
                   dispatches, is_closed, enginesCreated>>
    /\ UNCHANGED <<schedVars, taskVars, retireVars>>

NextPool ==
    \/ Next
    \/ Pool_RunUnopened
    \/ Pool_CloseBegin
    \/ Pool_CloseFinish

SpecPool == Init /\ [][NextPool]_vars

\* Opening the engine pool alone, for every configured size up to MaxOpenSize
InitOpen == \E n \in 1..MaxOpenSize : InitSized(n)

NextOpen == \E S \in SUBSET (1..MaxOpenSize) : EnginePool_Enter(S)

SpecOpen == InitOpen /\ [][NextOpen]_vars

\* ---------------------------------------------------------------------------
\* AnalysisOrchestrator.run and its background writer task. The scheduler is
\* reduced to what the orchestrator observes of GameProcessorPool.run: results
\* and artifacts produced by the done callbacks, the wait in work_queue.join
\* (which the end-of-stream sentinel keeps from ever being satisfied) and the
\* return through the cleanup once the cancellation flag is set.
\* ---------------------------------------------------------------------------
\* `except FileNotFoundError` around the counting of the games
CatchesAtCount(exc) == exc = "FileNotFoundError"

\* the report of the `except Exception` handler
ErrorReport == RunReport(<<>>, 0, <<"Fatal error">>)

\* `except Exception as e`: set the flag, return the error report; the
\* `finally` clause follows
Except ==
    /\ shutdown_event' = TRUE
    /\ report' = ErrorReport
    /\ orchPc' = "finally"

\* close_tasks = [inst.close() for inst in self._instances], gathered
ExitLeavesOpen(owned, st) == st
ExitCloses(owned, st) == [e \in Engines |-> IF e \in owned THEN "closed" ELSE st[e]]

\* EnginePool.__aexit__
EnginePool_Exit ==
    IF is_closed
    THEN UNCHANGED poolVars
    ELSE /\ is_closed' = TRUE
         /\ closePc' = "done"
         /\ engineState' = ExitCloses(instances, engineState)
         /\ instances' = {}
         /\ pool' = <<>>
         /\ UNCHANGED <<enginesCreated, dropped>>

\* lines 85-91: count the games of the input file
Orch_CountGames(outcome) ==
    /\ orchPc = "start"
    /\ IF outcome = "ok"
       THEN /\ orchPc' = "cache"
            /\ UNCHANGED <<report, propagated>>
       ELSE IF CatchesAtCount(outcome)
       THEN /\ orchPc' = "returned"
            /\ report' = RunReport(<<>>, 0, <<"Input PGN file not found.">>)
            /\ UNCHANGED propagated
       ELSE /\ orchPc' = "raised"
            /\ propagated' = outcome
            /\ UNCHANGED report
    /\ UNCHANGED <<detailVars, poolVars, writerVars, shutdown_event, mainPc, all_results,
                   jobOutcome, cache_open>>

\* lines 95-98: TrainingDataService and SqliteCacheService.__aenter__
Orch_OpenCache(ok) ==
    /\ orchPc = "cache"
    /\ IF ok
       THEN /\ cache_open' = TRUE
            /\ orchPc' = "pool"
            /\ UNCHANGED <<report, shutdown_event>>
       ELSE /\ Except
            /\ UNCHANGED cache_open
    /\ UNCHANGED <<detailVars, poolVars, writerVars, mainPc, all_results, jobOutcome, propagated>>

\* lines 99-124: EnginePool.__aenter__; when it raises the cache is closed and
\* the handler runs, otherwise the writer task is created and run() of the
\* scheduler is awaited
Orch_OpenPool(S) ==
    /\ orchPc = "pool"
    /\ EnginePool_Open(S)
    /\ IF OpenRaises(S)
       THEN /\ cache_open' = FALSE
            /\ Except
            /\ UNCHANGED <<writerPc, mainPc>>
       ELSE /\ writerPc' = "poll"
            /\ mainPc' = "loop"
            /\ orchPc' = "sched"
            /\ UNCHANGED <<cache_open, report, shutdown_event>>
    /\ UNCHANGED <<detailVars, all_results, jobOutcome, propagated, pgn_write_queue,
                   pgn_unfinished, writerItem, writerCancel, written>>

\* _done_callback of the last attempt of job j, as the orchestrator sees it:
\* a result with its artifact, a result without artifact, or no result
Sched_Attempt(j, outcome) ==
    /\ orchPc = "sched"
    /\ mainPc \in {"loop", "join"}
    /\ jobOutcome[j] = "none"
    /\ IF outcome = "failed"
       THEN /\ jobOutcome' = [jobOutcome EXCEPT ![j] = "failed"]
            /\ UNCHANGED <<all_results, pgn_write_queue, pgn_unfinished>>
       ELSE /\ jobOutcome' = [jobOutcome EXCEPT ![j] = "success"]
            /\ all_results' = Append(all_results, j)
            /\ IF outcome = "artifact"
               THEN /\ pgn_write_queue' = QueuePut(pgn_write_queue, j)
                    /\ pgn_unfinished' = pgn_unfinished + 1
               ELSE UNCHANGED <<pgn_write_queue, pgn_unfinished>>
    /\ UNCHANGED <<detailVars, poolVars, shutdown_event, mainPc, orchPc, report, propagated,
                   cache_open, writerPc, writerItem, writerCancel, written>>

\* The consumer loop reads the sentinel with the flag unset and run() waits in
\* work_queue.join()
Sched_EndOfStream ==
    /\ orchPc = "sched"
    /\ mainPc = "loop"
    /\ ~shutdown_event
    /\ mainPc' = "join"
    /\ UNCHANGED <<detailVars, poolVars, orchVars, shutdown_event, all_results, jobOutcome>>

\* The consumer loop sees the flag, run() cleans up and returns all_results;
\* lines 126-140 build the report
Sched_Return ==
    /\ orchPc = "sched"
    /\ mainPc = "loop"
    /\ shutdown_event
    /\ mainPc' = "returned"
    /\ report' = RunReport(all_results, Len(all_results), <<>>)
    /\ orchPc' = "drain"
    /\ UNCHANGED <<detailVars, poolVars, writerVars, shutdown_event, all_results, jobOutcome,
                   propagated, cache_open>>

\* An exception raised inside the `async with` body (lines 101-152): both
\* context managers are left, then the handler runs
Orch_BodyRaises ==
    /\ orchPc \in {"sched", "drain", "gather"}
    /\ EnginePool_Exit
    /\ cache_open' = FALSE
    /\ Except
    /\ UNCHANGED <<detailVars, writerVars, mainPc, all_results, jobOutcome, propagated>>

\* lines 143-144: `await self._pgn_write_queue.join()`, then the sentinel
Orch_Join ==
    /\ orchPc = "drain"
    /\ pgn_unfinished = 0
    /\ pgn_write_queue' = QueuePut(pgn_write_queue, None)
    /\ pgn_unfinished' = pgn_unfinished + 1
    /\ orchPc' = "gather"
    /\ UNCHANGED <<detailVars, poolVars, shutdown_event, mainPc, all_results, jobOutcome,
                   report, propagated, cache_open, writerPc, writerItem, writerCancel, written>>

\* lines 146-152: the writer task has ended; the CSV report is generated only
\* when the flag is unset
Orch_Gather ==
    /\ orchPc = "gather"
    /\ writerPc = "finished"
    /\ orchPc' = "exit"
    /\ UNCHANGED <<detailVars, poolVars, writerVars, shutdown_event, mainPc, all_results,
                   jobOutcome, report, propagated, cache_open>>

\* line 154: `return report` leaves both context managers; an exception of
\* SqliteCacheService.__aexit__ goes to the handler
Orch_Exit(ok) ==
    /\ orchPc = "exit"
    /\ EnginePool_Exit
    /\ cache_open' = FALSE
    /\ IF ok
       THEN /\ orchPc' = "finally"
            /\ UNCHANGED <<report, shutdown_event>>
       ELSE Except
    /\ UNCHANGED <<detailVars, writerVars, mainPc, all_results, jobOutcome, propagated>>

\* lines 159-160 and _shutdown: cancel the writer task if it has not ended
Orch_Finally ==
    /\ orchPc = "finally"
    /\ orchPc' = "shutdown"
    /\ writerCancel' = (writerPc \notin {"none", "finished"})
    /\ UNCHANGED <<detailVars, poolVars, shutdown_event, mainPc, all_results, jobOutcome,
                   report, propagated, cache_open, pgn_write_queue, pgn_unfinished, writerPc,
                   writerItem, written>>

\* _shutdown's gather is done, run() returns the report
Orch_Return ==
    /\ orchPc = "shutdown"
    /\ writerPc \in {"none", "finished"}
    /\ orchPc' = "returned"
    /\ UNCHANGED <<detailVars, poolVars, writerVars, shutdown_event, mainPc, all_results,
                   jobOutcome, report, propagated, cache_open>>

\* The writer took `item` from the queue: the sentinel ends it
Writer_Take(item) ==
    /\ pgn_write_queue' = QueueGet(pgn_write_queue)
    /\ IF item = None
       THEN /\ pgn_unfinished' = pgn_unfinished - 1
            /\ writerPc' = "finished"
            /\ UNCHANGED writerItem
       ELSE /\ writerPc' = "export"
            /\ writerItem' = item
            /\ UNCHANGED pgn_unfinished

\* _pgn_writer_task, loop header and wait_for(queue.get(), 1.0)
Writer_Poll ==
    /\ writerPc = "poll"
    /\ ~writerCancel
    /\ IF shutdown_event
       THEN /\ writerPc' = "finished"
            /\ UNCHANGED <<pgn_write_queue, pgn_unfinished, writerItem>>
       ELSE IF pgn_write_queue # <<>>
       THEN Writer_Take(Head(pgn_write_queue))
       ELSE /\ writerPc' = "get"
            /\ UNCHANGED <<pgn_write_queue, pgn_unfinished, writerItem>>
    /\ UNCHANGED <<detailVars, poolVars, shutdown_event, mainPc, all_results, jobOutcome,
                   orchPc, report, propagated, cache_open, writerCancel, written>>

\* an item arrives while the writer waits in queue.get()
Writer_Get ==
    /\ writerPc = "get"
    /\ ~writerCancel
    /\ pgn_write_queue # <<>>
    /\ Writer_Take(Head(pgn_write_queue))
    /\ UNCHANGED <<detailVars, poolVars, shutdown_event, mainPc, all_results, jobOutcome,
                   orchPc, report, propagated, cache_open, writerCancel, written>>

\* asyncio.TimeoutError: back to the loop header
Writer_Timeout ==
    /\ writerPc = "get"
    /\ ~writerCancel
    /\ pgn_write_queue = <<>>
    /\ writerPc' = "poll"
    /\ UNCHANGED <<detailVars, poolVars, shutdown_event, mainPc, all_results, jobOutcome,
                   orchPc, report, propagated, cache_open, pgn_write_queue, pgn_unfinished,
                   writerItem, writerCancel, written>>

\* export_annotated_game returns or raises PgnServiceError; task_done in the
\* `finally`; the exception ends the task
Writer_Export(ok) ==
    /\ writerPc = "export"
    /\ ~writerCancel
    /\ pgn_unfinished' = pgn_unfinished - 1
    /\ writerItem' = None
    /\ IF ok
       THEN /\ written' = Append(written, writerItem)
            /\ writerPc' = "poll"
       ELSE /\ writerPc' = "finished"
            /\ UNCHANGED written
    /\ UNCHANGED <<detailVars, poolVars, shutdown_event, mainPc, all_results, jobOutcome,
                   orchPc, report, propagated, cache_open, pgn_write_queue, writerCancel>>

\* CancelledError at the await the writer is suspended in
Writer_Cancelled ==
    /\ writerCancel
    /\ writerPc \in {"poll", "get", "export"}
    /\ writerPc' = "finished"
    /\ writerItem' = None
    /\ pgn_unfinished' = IF writerPc = "export" THEN pgn_unfinished - 1 ELSE pgn_unfinished
    /\ UNCHANGED <<detailVars, poolVars, shutdown_event, mainPc, all_results, jobOutcome,
                   orchPc, report, propagated, cache_open, pgn_write_queue, writerCancel, written>>

\* the embedding application or the signal handler sets the flag
Orch_SetShutdown ==
    /\ orchPc \notin {"returned", "raised"}
    /\ ~shutdown_event
    /\ shutdown_event' = TRUE
    /\ UNCHANGED <<detailVars, poolVars, orchVars, mainPc, all_results, jobOutcome>>

NextOrch ==
    \/ \E o \in {"ok", "FileNotFoundError", "PermissionError"} : Orch_CountGames(o)
    \/ \E ok \in BOOLEAN : Orch_OpenCache(ok)
    \/ \E S \in SUBSET (1..MaxOpenSize) : Orch_OpenPool(S)
    \/ \E j \in Jobs : \E o \in {"artifact", "noartifact", "failed"} : Sched_Attempt(j, o)
    \/ Sched_EndOfStream
    \/ Sched_Return
    \/ Orch_BodyRaises
    \/ Orch_Join
    \/ Orch_Gather
    \/ \E ok \in BOOLEAN : Orch_Exit(ok)
    \/ Orch_Finally
    \/ Orch_Return
    \/ Writer_Poll
    \/ Writer_Get
    \/ Writer_Timeout
    \/ \E ok \in BOOLEAN : Writer_Export(ok)
    \/ Writer_Cancelled
    \/ Orch_SetShutdown

SpecOrch == Init /\ [][NextOrch]_vars

\* The orchestrated run under the scheduling of the event loop: every step
\* that is ready is eventually taken; neither the cancellation request nor an
\* exception in the body is ever forced to happen.
FairSpecOrch ==
    /\ SpecOrch
    /\ WF_vars(\E o \in {"ok", "FileNotFoundError", "PermissionError"} : Orch_CountGames(o))
    /\ WF_vars(\E ok \in BOOLEAN : Orch_OpenCache(ok))
    /\ WF_vars(\E S \in SUBSET (1..MaxOpenSize) : Orch_OpenPool(S))
    /\ \A j \in Jobs : WF_vars(\E o \in {"artifact", "noartifact", "failed"} : Sched_Attempt(j, o))
    /\ WF_vars(Sched_EndOfStream)
    /\ WF_vars(Sched_Return)
    /\ WF_vars(Orch_Join)
    /\ WF_vars(Orch_Gather)
    /\ WF_vars(\E ok \in BOOLEAN : Orch_Exit(ok))
    /\ WF_vars(Orch_Finally)
    /\ WF_vars(Orch_Return)
    /\ WF_vars(Writer_Poll)
    /\ WF_vars(Writer_Get)
    /\ WF_vars(Writer_Timeout)
    /\ WF_vars(\E ok \in BOOLEAN : Writer_Export(ok))
    /\ WF_vars(Writer_Cancelled)

\* ---------------------------------------------------------------------------
\* AnalysisProvider.get_analyses_for_fens on top of SqliteCacheService
\* ---------------------------------------------------------------------------
\* An AnalysisResult is modelled by the number of the call whose engine
\* analysis produced it, so that a cached result and a fresh one differ.

\* all_cache_keys: one CacheKey per entry of fens, in order
AllCacheKeys(fs, id) == [i \in 1..Len(fs) |-> <<fs[i], id>>]

\* SqliteCacheService.get_cached_analyses_batch: the rows found for the keys;
\* a row whose JSON does not decode is logged and left out
GetCachedBatch(c, keys) == [k \in {x \in Range(keys) : c[x] # NoRow /\ c[x] # CorruptRow} |-> c[k]]

\* missed_keys = [key for key in all_cache_keys if key not in cached_results]
MissedAll(keys, found) == keys
MissedKeys(keys, found) == SelectSeq(keys, LAMBDA k : k \notin DOMAIN found)

\* missed_fens = [key.fen for key in missed_keys]
MissedFens(keys, found) == [i \in 1..Len(MissedKeys(keys, found)) |-> MissedKeys(keys, found)[i][1]]

\* StockfishService._analyze_batch_sync: results[fen] for every fen of the argument
AnalyzeBatch(fs, n) == [f \in Range(fs) |-> n]

\* results_to_store: the engine's answer for every fen of key_map, by cache key
ResultsToStore(keys, found, answer) ==
    [k \in {x \in Range(MissedKeys(keys, found)) : x[1] \in DOMAIN answer} |-> answer[k[1]]]

\* SqliteCacheService.store_analyses_batch: INSERT OR IGNORE of every result
StoreDrops(c, rs) == c
InsertOrIgnore(c, rs) == [k \in CacheKeys |-> IF k \in DOMAIN rs /\ c[k] = NoRow THEN rs[k] ELSE c[k]]

\* final_results_by_key = cached_results | results_to_store
Merged(found, fresh) == [k \in DOMAIN found \cup DOMAIN fresh |-> IF k \in DOMAIN fresh THEN fresh[k] ELSE found[k]]

\* {key.fen: result for key, result in d.items()}
ByFen(d) == [f \in {k[1] : k \in DOMAIN d} |-> d[CHOOSE k \in DOMAIN d : k[1] = f]]

\* Is CacheWriteError of store_analyses_batch handled inside get_analyses_for_fens?
\* `await self._cache.store_analyses_batch(results_to_store)` is in no try block.
CatchesStoreError == FALSE

\* The call up to its first cache access: `if not fens: return {}`, the engine
\* identifier, the list of cache keys
Provider_Call(fs, id) ==
    /\ provPc \in {"idle", "returned", "raised"}
    /\ calls < MaxCalls
    /\ calls' = calls + 1
    /\ fens' = fs
    /\ engine_id' = id
    /\ engine_calls' = <<>>
    /\ cached_results' = EmptyDict
    /\ results_to_store' = EmptyDict
    /\ returned' = EmptyDict
    /\ provExc' = "none"
    /\ provPc' = IF fs = <<>> THEN "returned" ELSE "lookup"
    /\ UNCHANGED cache
    /\ UNCHANGED <<runVars, pipeVars, progress_calls, utilVars>>

\* cached_results = await self._cache.get_cached_analyses_batch(all_cache_keys),
\* then the early return when nothing was missed
Provider_Lookup(ok) ==
    /\ provPc = "lookup"
    /\ IF ~ok
       THEN /\ provPc' = "raised"
            /\ provExc' = "CacheReadError"
            /\ UNCHANGED <<cached_results, returned>>
       ELSE /\ cached_results' = GetCachedBatch(cache, AllCacheKeys(fens, engine_id))
            /\ IF MissedKeys(AllCacheKeys(fens, engine_id), cached_results') = <<>>
               THEN /\ provPc' = "returned"
                    /\ returned' = ByFen(cached_results')
               ELSE /\ provPc' = "engine"
                    /\ UNCHANGED returned
            /\ UNCHANGED provExc
    /\ UNCHANGED <<calls, fens, engine_id, cache, engine_calls, results_to_store>>
    /\ UNCHANGED <<runVars, pipeVars, progress_calls, utilVars>>

\* new_engine_analysis = await engine.analyze_fens_batch(missed_fens), then
\* results_to_store is built; with nothing to store the merged dict is returned
Provider_Analyze(ok) ==
    /\ provPc = "engine"
    /\ engine_calls' = Append(engine_calls, MissedFens(AllCacheKeys(fens, engine_id), cached_results))
    /\ IF ~ok
       THEN /\ provPc' = "raised"
            /\ provExc' = "EngineAnalysisError"
            /\ UNCHANGED <<results_to_store, returned>>
       ELSE /\ results_to_store' = ResultsToStore(AllCacheKeys(fens, engine_id), cached_results,
                                                  AnalyzeBatch(MissedFens(AllCacheKeys(fens, engine_id), cached_results), calls))
            /\ IF results_to_store' = EmptyDict
               THEN /\ provPc' = "returned"
                    /\ returned' = ByFen(Merged(cached_results, results_to_store'))
               ELSE /\ provPc' = "store"
                    /\ UNCHANGED returned
            /\ UNCHANGED provExc
    /\ UNCHANGED <<calls, fens, engine_id, cache, cached_results>>
    /\ UNCHANGED <<runVars, pipeVars, progress_calls, utilVars>>

\* await self._cache.store_analyses_batch(results_to_store), the merge and the
\* return; a failed store is rolled back and raises CacheWriteError
Provider_Store(ok) ==
    /\ provPc = "store"
    /\ IF ok
       THEN /\ cache' = InsertOrIgnore(cache, results_to_store)
            /\ provPc' = "returned"
            /\ returned' = ByFen(Merged(cached_results, results_to_store))
            /\ UNCHANGED provExc
       ELSE /\ UNCHANGED cache
            /\ IF CatchesStoreError
               THEN /\ provPc' = "returned"
                    /\ returned' = ByFen(Merged(cached_results, results_to_store))
                    /\ UNCHANGED provExc
               ELSE /\ provPc' = "raised"
                    /\ provExc' = "CacheWriteError"
                    /\ UNCHANGED returned
    /\ UNCHANGED <<calls, fens, engine_id, cached_results, engine_calls, results_to_store>>
    /\ UNCHANGED <<runVars, pipeVars, progress_calls, utilVars>>

\* A stored row stops being decodable (json.JSONDecodeError / TypeError in the
\* lookup): the lookup will skip it
Cache_RowCorrupted(k) ==
    /\ provPc \in {"idle", "returned", "raised"}
    /\ cache[k] # NoRow /\ cache[k] # CorruptRow
    /\ cache' = [cache EXCEPT ![k] = CorruptRow]
    /\ UNCHANGED <<provPc, calls, fens, engine_id, cached_results, engine_calls, results_to_store,
                   returned, provExc>>
    /\ UNCHANGED <<runVars, pipeVars, progress_calls, utilVars>>

NextProv ==
    \/ \E fs \in FenLists, id \in EngineIds : Provider_Call(fs, id)
    \/ \E ok \in BOOLEAN : Provider_Lookup(ok)
    \/ \E ok \in BOOLEAN : Provider_Analyze(ok)
    \/ \E ok \in BOOLEAN : Provider_Store(ok)
    \/ \E k \in CacheKeys : Cache_RowCorrupted(k)

SpecProv == Init /\ [][NextProv]_vars

\* ---------------------------------------------------------------------------
\* GameProcessor.process_game and run_game_processing_pipeline for one attempt
\* at a time, and what _done_callback does with the attempt's result
\* ---------------------------------------------------------------------------
\* for stage in stages: the stage after stage i
SkipsAStage(i) == i + 2
NextStage(i) == i + 1

\* current_context.summary = None; current_context.annotated_game = None
AbortKeeps(c) == c
Aborted(c) == [summary |-> FALSE, annotated_game |-> FALSE]

\* The fields a stage's execute() can leave set on the context: AnnotationStage
\* sets annotated_game, SummaryStage sets summary, both return early without
\* setting it when the game has nothing to annotate or summarise.
StageLeaves(i, c, sets) ==
    CASE i = AnnotationStage -> [c EXCEPT !.annotated_game = sets]
      [] i = SummaryStage -> [c EXCEPT !.summary = sets]
      [] OTHER -> c

\* ProcessedGameResult(annotated_game=final_context.annotated_game, summary=final_context.summary)
ResultDropsGame(c) == [summary |-> c.summary, annotated_game |-> FALSE]
ResultOf(c) == [summary |-> c.summary, annotated_game |-> c.annotated_game]

\* task.result() of an attempt whose process_game returned r, as the callback sees it
ResultOutcome(r) == IF r.summary THEN "ok" ELSE "nosummary"

\* The loop head of run_game_processing_pipeline for stage i, with context c
\* and the stages ex executed so far: the loop is over, or the flag is found
\* set (clear and break), or stage i starts.
Driver_Continue(i, c, ex) ==
    /\ stageIdx' = i
    /\ IF i > NumStages
       THEN /\ pipePc' = "returned"
            /\ executed' = ex
            /\ abortedAt' = 0
            /\ ctx' = c
            /\ pipeResult' = ResultOf(c)
       ELSE IF shutdown_event
       THEN /\ pipePc' = "returned"
            /\ executed' = ex
            /\ abortedAt' = i
            /\ ctx' = Aborted(c)
            /\ pipeResult' = ResultOf(Aborted(c))
       ELSE /\ pipePc' = "stage"
            /\ executed' = Append(ex, i)
            /\ abortedAt' = 0
            /\ ctx' = c
            /\ pipeResult' = NoContext

\* process_game: a fresh GameContext, then the driver up to the first stage's await
Pipe_Begin(j) ==
    /\ pipePc \in {"idle", "handled"}
    /\ j = pipeJob + 1
    /\ pipeJob' = j
    /\ stagesReturned' = 0
    /\ pipeExc' = "none"
    /\ Driver_Continue(1, NoContext, <<>>)
    /\ UNCHANGED <<shutdown_event, all_results, progress_calls, pgn_write_queue, pgn_unfinished>>
    /\ UNCHANGED attemptFrozen

\* current_context = await stage.execute(current_context) returns, and the
\* driver goes on to the next loop head
Pipe_StageReturns(sets) ==
    /\ pipePc = "stage"
    /\ stagesReturned' = stagesReturned + 1
    /\ Driver_Continue(NextStage(stageIdx), StageLeaves(stageIdx, ctx, sets), executed)
    /\ UNCHANGED <<pipeJob, pipeExc>>
    /\ UNCHANGED <<shutdown_event, all_results, progress_calls, pgn_write_queue, pgn_unfinished>>
    /\ UNCHANGED attemptFrozen

\* stage.execute raises: nothing is caught in the driver or in process_game
Pipe_StageRaises(exc) ==
    /\ pipePc = "stage"
    /\ pipePc' = "raised"
    /\ pipeExc' = exc
    /\ UNCHANGED <<pipeJob, stageIdx, executed, stagesReturned, abortedAt, ctx, pipeResult>>
    /\ UNCHANGED <<shutdown_event, all_results, progress_calls, pgn_write_queue, pgn_unfinished>>
    /\ UNCHANGED attemptFrozen

\* _done_callback on the finished attempt: the success branch appends, reports
\* progress and forwards the annotated game; an exception goes to a handler
Pipe_Callback ==
    /\ pipePc \in {"returned", "raised"}
    /\ pipePc' = "handled"
    /\ \E outcome \in {IF pipePc = "raised" THEN pipeExc ELSE ResultOutcome(pipeResult)} :
          /\ all_results' = IF AppendsResult(outcome) THEN Append(all_results, pipeJob) ELSE all_results
          /\ progress_calls' = IF ReportsProgress(outcome)
                               THEN Append(progress_calls, ProgressArgs(all_results'))
                               ELSE progress_calls
          /\ IF ForwardsArtifact(outcome, pipeResult.annotated_game)
             THEN /\ pgn_write_queue' = QueuePut(pgn_write_queue, pipeJob)
                  /\ pgn_unfinished' = pgn_unfinished + 1
             ELSE UNCHANGED <<pgn_write_queue, pgn_unfinished>>
    /\ UNCHANGED <<pipeJob, stageIdx, executed, stagesReturned, abortedAt, ctx, pipeResult, pipeExc>>
    /\ UNCHANGED shutdown_event
    /\ UNCHANGED attemptFrozen

\* the embedding application sets the cancellation flag while attempts run
Pipe_SetShutdown ==
    /\ ~shutdown_event
    /\ shutdown_event' = TRUE
    /\ UNCHANGED <<pipeVars, all_results, progress_calls, pgn_write_queue, pgn_unfinished>>
    /\ UNCHANGED attemptFrozen

NextPipe ==
    \/ \E j \in Jobs : Pipe_Begin(j)
    \/ \E sets \in BOOLEAN : Pipe_StageReturns(sets)
    \/ \E exc \in {"pgn", "engine", "other"} : Pipe_StageRaises(exc)
    \/ Pipe_Callback
    \/ Pipe_SetShutdown

SpecPipe == Init /\ [][NextPipe]_vars

\* ---------------------------------------------------------------------------
\* utils/retry.py: retry_with_backoff, and the cache methods decorated with it
\* ---------------------------------------------------------------------------
RetryOps == {"generic", "lookup", "store"}

\* exceptions_to_catch: DEFAULT_TRANSIENT_EXCEPTIONS for a function decorated
\* without the argument, RETRYABLE_EXCEPTIONS for the cache methods
ListsEverything(op) == {"ConnectionError", "TimeoutError", "ValueError", "OperationalError",
                        "CacheReadError", "CacheWriteError"}
Listed(op) ==
    IF op = "generic" THEN {"ConnectionError", "TimeoutError"} ELSE {"OperationalError"}

\* What one call of a decorated function without a handler of its own ends with
GenericOutcomes == {"ok", "TimeoutError", "ValueError"}

\* What the database does in one call of a cache method: nothing wrong, raise
\* aiosqlite.OperationalError ("database is locked"), raise another aiosqlite.Error
DbFaults == {"none", "locked", "other"}

\* The body of get_cached_analyses_batch / store_analyses_batch: every
\* aiosqlite.Error raised by the statement (OperationalError is one) is caught
\* inside the method and raised again as CacheReadError / CacheWriteError; the
\* store rolls back first, outside any handler, so a failing rollback leaves
\* the method as the database's own error.
MethodOutcome(op, fault, rollback_ok) ==
    IF fault = "none" THEN "ok"
    ELSE IF op = "lookup" THEN "CacheReadError"
    ELSE IF rollback_ok THEN "CacheWriteError"
    ELSE "OperationalError"

\* if attempt == attempts: raise
IsPastLastAttempt(a, n) == a > n
IsLastAttempt(a, n) == a = n

\* jitter = random.uniform(-current_delay * jitter_factor, current_delay * jitter_factor)
\* with jitter_factor 0.2: the two ends and the middle of the interval
Jitters(delay) == {-(delay \div 5), 0, delay \div 5}

\* wait_time = min(max_backoff_s, current_delay + jitter)
WaitTime(delay, jitter) ==
    IF delay + jitter < MaxBackoff THEN delay + jitter ELSE MaxBackoff

\* wrapper(*args): current_delay = initial_backoff_s, first iteration of
\* `for attempt in range(1, attempts + 1)` up to the call of func
Retry_Call(op, n) ==
    /\ retryPc = "idle"
    /\ retryPc' = "calling"
    /\ retryOp' = op
    /\ attempts' = IF op = "generic" THEN n ELSE DefaultAttempts
    /\ attempt' = 1
    /\ current_delay' = InitialBackoff
    /\ UNCHANGED <<func_outcomes, db_faults, waited, retryExc>>
    /\ UNCHANGED <<runVars, provVars, pipeVars, progress_calls, clockVars>>

\* `return await func(...)` and the handler `except exceptions_to_catch`
\* around it, for a call of func that ended with `outcome`
Retry_AfterFunc(outcome) ==
    /\ func_outcomes' = Append(func_outcomes, outcome)
    /\ IF outcome = "ok"
       THEN /\ retryPc' = "returned"
            /\ UNCHANGED <<retryExc, waited>>
       ELSE IF outcome \notin Listed(retryOp) \/ IsLastAttempt(attempt, attempts)
       THEN /\ retryPc' = "raised"
            /\ retryExc' = outcome
            /\ UNCHANGED waited
       ELSE /\ retryPc' = "sleeping"
            /\ \E jitter \in Jitters(current_delay) :
                  waited' = Append(waited, WaitTime(current_delay, jitter))
            /\ UNCHANGED retryExc
    /\ UNCHANGED <<retryOp, attempts, attempt, current_delay>>
    /\ UNCHANGED <<runVars, provVars, pipeVars, progress_calls, clockVars>>

\* one call of a decorated function that has no handler of its own
Retry_Func(outcome) ==
    /\ retryPc = "calling"
    /\ retryOp = "generic"
    /\ UNCHANGED db_faults
    /\ Retry_AfterFunc(outcome)

\* one call of get_cached_analyses_batch / store_analyses_batch
Retry_CacheMethod(fault, rollback_ok) ==
    /\ retryPc = "calling"
    /\ retryOp \in {"lookup", "store"}
    /\ db_faults' = Append(db_faults, fault)
    /\ Retry_AfterFunc(MethodOutcome(retryOp, fault, rollback_ok))

\* asyncio.sleep(wait_time) returns: current_delay *= 2, next iteration
Retry_Wake ==
    /\ retryPc = "sleeping"
    /\ retryPc' = "calling"
    /\ current_delay' = current_delay * 2
    /\ attempt' = attempt + 1
    /\ UNCHANGED <<retryOp, attempts, func_outcomes, db_faults, waited, retryExc>>
    /\ UNCHANGED <<runVars, provVars, pipeVars, progress_calls, clockVars>>

NextRetry ==
    \/ \E op \in RetryOps, n \in 1..MaxAttempts : Retry_Call(op, n)
    \/ \E outcome \in GenericOutcomes : Retry_Func(outcome)
    \/ \E fault \in DbFaults, rollback_ok \in BOOLEAN : Retry_CacheMethod(fault, rollback_ok)
    \/ Retry_Wake

SpecRetry == Init /\ [][NextRetry]_vars

\* ---------------------------------------------------------------------------
\* ClassificationStage.execute: the time spent on each move
\* ---------------------------------------------------------------------------
\* TimeControl headers tried: none, "300" and "300+5"
TimeControls == {NoHeader} \cup [base : {300}, inc : {NoInc, 5}]

\* comments tried: [%clk h:mm:ss] as <<h, m, s>>, or a comment without the tag
ClkComments == {<<0, 4, 55>>, <<0, 4, 40>>, <<0, 4, 30>>, NoComment}

\* float(time_control_str.split('+')[0]), None without the header
BaseTime(tc) == IF tc = NoHeader THEN NoClock ELSE tc.base

\* chess_utils.get_time_increment(headers.get("TimeControl", "0+0"))
TimeIncrement(tc) == IF tc = NoHeader \/ tc.inc = NoInc THEN 0 ELSE tc.inc

\* time_parser.parse_clk_comment_to_seconds
ParseClk(comment) ==
    IF comment = NoComment THEN NoClock
    ELSE IF comment[2] >= 60 \/ comment[3] >= 60 THEN NoClock
    ELSE comment[1] * 3600 + comment[2] * 60 + comment[3]

Opponent(colour) == IF colour = "w" THEN "b" ELSE "w"

\* the colour to move alternates from the first slice on
ColourOf(first, i) == IF i % 2 = 1 THEN first ELSE Opponent(first)

\* previous_player_clk = last_clock[player_color]
PreviousClock(clocks, colour) == clocks[colour]

\* time_spent for one slice: None without a reading, without a previous
\* reading of the player, or when the difference is negative
TimeSpent(previous, current, inc) ==
    IF current = NoClock \/ previous = NoClock THEN NoClock
    ELSE IF previous - current + inc < 0 THEN NoClock
    ELSE previous - current + inc

\* execute up to the head of the loop over the slices
Clock_Begin(tc, first, comments) ==
    /\ clockPc = "idle"
    /\ clockPc' = "loop"
    /\ time_control' = tc
    /\ slices' = [i \in 1..Len(comments) |->
                    [player_color |-> ColourOf(first, i), comment |-> comments[i]]]
    /\ last_clock' = [c \in Colours |-> BaseTime(tc)]
    /\ time_spent_per_move' = <<>>
    /\ UNCHANGED <<runVars, provVars, pipeVars, progress_calls, retryVars>>

\* one iteration of `for slice in context.parsed_game.slices`
Clock_Slice ==
    /\ clockPc = "loop"
    /\ Len(time_spent_per_move) < Len(slices)
    /\ LET slice == slices[Len(time_spent_per_move) + 1]
           current_clk_seconds == ParseClk(slice.comment)
       IN /\ time_spent_per_move' =
                Append(time_spent_per_move,
                       TimeSpent(PreviousClock(last_clock, slice.player_color),
                                 current_clk_seconds, TimeIncrement(time_control)))
          /\ last_clock' = IF current_clk_seconds # NoClock
                           THEN [last_clock EXCEPT ![slice.player_color] = current_clk_seconds]
                           ELSE last_clock
    /\ UNCHANGED <<clockPc, time_control, slices>>
    /\ UNCHANGED <<runVars, provVars, pipeVars, progress_calls, retryVars>>

\* the loop over the slices ends
Clock_End ==
    /\ clockPc = "loop"
    /\ Len(time_spent_per_move) = Len(slices)
    /\ clockPc' = "done"
    /\ UNCHANGED <<time_control, slices, last_clock, time_spent_per_move>>
    /\ UNCHANGED <<runVars, provVars, pipeVars, progress_calls, retryVars>>

NextClock ==
    \/ \E tc \in TimeControls, first \in Colours, n \in 0..MaxMoves :
          \E comments \in [1..n -> ClkComments] : Clock_Begin(tc, first, comments)
    \/ Clock_Slice
    \/ Clock_End

SpecClock == Init /\ [][NextClock]_vars

TypeOK ==
    /\ shutdown_event \in BOOLEAN
    /\ fillerPc \in {"idle", "run", "done"}
    /\ srcIdx \in 0..NumJobs
    /\ mainPc \in {"init", "aborted", "loop", "get", "sem", "join", "gather", "returned"}
    /\ game \in Jobs \cup {None}
    /\ semaphore \in Nat
    /\ pending_tasks \subseteq Jobs
    /\ \A j \in Jobs : taskPc[j] \in {"none", "acquire", "waiting", "lent", "done"}
    /\ \A j \in Jobs : taskEngine[j] \in Engines \cup {None}
    /\ instances \subseteq Engines
    /\ Range(pool) \subseteq Engines
    /\ lock \in Engines \cup {None}
    /\ closePc \in {"none", "lock", "done"}
    /\ dropped \subseteq Engines
    /\ pool_size \in 1..(MaxOpenSize + 1)
    /\ orchPc \in {"start", "cache", "pool", "sched", "drain", "gather", "exit", "finally",
                   "shutdown", "returned", "raised"}
    /\ writerPc \in {"none", "poll", "get", "export", "finished"}
    /\ writerItem \in Jobs \cup {None}
    /\ pgn_unfinished \in 0..(NumJobs + 1)
    /\ Range(pgn_write_queue) \subseteq Jobs \cup {None}
    /\ Range(written) \subseteq Jobs
    /\ cache_open \in BOOLEAN /\ writerCancel \in BOOLEAN
    /\ \A j \in Jobs : jobOutcome[j] \in {"none", "success", "aborted", "validation",
                                           "exhausted", "cancelled", "failed"}
    /\ provPc \in {"idle", "lookup", "engine", "store", "returned", "raised"}
    /\ calls \in 0..MaxCalls
    /\ fens \in FenLists
    /\ engine_id \in EngineIds \cup {None}
    /\ \A k \in CacheKeys : cache[k] \in {NoRow, CorruptRow} \cup 1..MaxCalls
    /\ DOMAIN cached_results \subseteq CacheKeys /\ DOMAIN results_to_store \subseteq CacheKeys
    /\ DOMAIN returned \subseteq Fens
    /\ Len(engine_calls) <= 1
    /\ provExc \in {"none", "CacheReadError", "EngineAnalysisError", "CacheWriteError"}
    /\ pipePc \in {"idle", "stage", "returned", "raised", "handled"}
    /\ pipeJob \in Jobs \cup {None}
    /\ stageIdx \in 0..(NumStages + 1)
    /\ Range(executed) \subseteq 1..NumStages
    /\ stagesReturned \in 0..NumStages
    /\ abortedAt \in 0..NumStages
    /\ ctx \in [summary : BOOLEAN, annotated_game : BOOLEAN]
    /\ pipeResult \in [summary : BOOLEAN, annotated_game : BOOLEAN]
    /\ pipeExc \in {"none", "pgn", "engine", "other"}
    /\ Len(progress_calls) <= NumJobs
    /\ retryPc \in {"idle", "calling", "sleeping", "returned", "raised"}
    /\ retryOp \in RetryOps \cup {"none"}
    /\ attempts \in 0..MaxAttempts
    /\ attempt \in 0..MaxAttempts
    /\ func_outcomes \in Seq(ListsEverything("generic") \cup {"ok"})
    /\ Len(func_outcomes) <= MaxAttempts
    /\ db_faults \in Seq(DbFaults)
    /\ current_delay \in 0..MaxBackoff
    /\ waited \in Seq(0..MaxBackoff)
    /\ retryExc \in ListsEverything("generic") \cup {"none"}
    /\ clockPc \in {"idle", "loop", "done"}
    /\ time_control \in TimeControls
    /\ slices \in Seq([player_color : Colours, comment : ClkComments])
    /\ Len(slices) <= MaxMoves
    /\ last_clock \in [Colours -> {NoClock} \cup 0..300]
    /\ time_spent_per_move \in Seq({NoClock} \cup 0..305)
    /\ Len(time_spent_per_move) <= Len(slices)

\* ---------------------------------------------------------------------------
\* Properties
\* ---------------------------------------------------------------------------
\* The job has left the system: read from the stream, not in the work queue,
\* not held by the consumer loop, no task and no callback outstanding.
JobTerminal(j) ==
    /\ j <= srcIdx
    /\ j \notin Range(work_queue)
    /\ game # j
    /\ taskPc[j] = "none"

Lent == {j \in Jobs : taskPc[j] = "lent"}

\* C1: with the source exhausted and the flag unset, the completion wait of
\* run() (work_queue.join) is satisfied once every job has reached a terminal
\* outcome, so that run() can return.
C1_JoinSatisfiedWhenAllJobsTerminal ==
    (/\ mainPc = "join"
     /\ ~shutdown_event
     /\ fillerPc = "done"
     /\ \A j \in Jobs : JobTerminal(j))
    => unfinished_tasks = 0

\* C2: a job requeued after an engine failure is dispatched again: the consumer
\* loop is never past its dispatching phase while a job waits in the work queue
\* of a run that was not cancelled.
C2_RequeuedJobIsDispatchedAgain ==
    (mainPc = "join" /\ ~shutdown_event) => \A j \in Jobs : j \notin Range(work_queue)

\* C3: task_done has been called exactly once for a job that reached its
\* terminal outcome and not at all for a job that has not (queued, requeued,
\* in flight or waiting for its callback).
C3_TaskDoneOncePerTerminalJob ==
    \A j \in Jobs : task_done_calls[j] = IF JobTerminal(j) THEN 1 ELSE 0

\* C3 witness: a job that was requeued at least once has reached its terminal outcome.
C3_Witness ==
    \E j \in Jobs : retry_counts[j] >= 1 /\ JobTerminal(j) /\ task_done_calls[j] = 1

\* C4: no engine is held by two job attempts at the same time.
C4_NoEngineLentTwice ==
    \A j1, j2 \in Lent : j1 # j2 => taskEngine[j1] # taskEngine[j2]

\* C4 witness: two attempts hold an engine at the same time.
C4_Witness ==
    \E j1, j2 \in Lent : j1 # j2 /\ taskEngine[j1] # None /\ taskEngine[j2] # None

\* C5: at most pool_size engine handles are acquired and not yet released.
C5_AtMostPoolSizeLent == Cardinality(Lent) <= pool_size

\* C6: the availability queue only holds handles of the owned set, so a retired
\* handle is never handed out by acquire.
C6_QueueHoldsOnlyOwnedHandles == Range(pool) \subseteq instances

\* C7: every finished attempt has released the concurrency gate exactly once
\* (the permits not held by an attempt in flight are all in the semaphore) and
\* has returned the engine it acquired (the handle is in the availability queue
\* or lent again).
C7_EveryAttemptReleasesEngineAndGate ==
    /\ semaphore + Cardinality(Live) = concurrency
    /\ \A j \in Jobs :
         (taskPc[j] = "done" /\ taskEngine[j] # None /\ ~is_closed)
         => taskEngine[j] \in Range(pool) \cup {taskEngine[k] : k \in Lent}

\* C8: the number of attempts in flight is at most `concurrency`.
C8_InFlightAtMostConcurrency == Cardinality(Live) <= concurrency

\* C8 witness: `concurrency` attempts are in flight while the consumer loop
\* holds a further job taken from the work queue and waits for the gate.
C8_Witness ==
    /\ Cardinality(Live) = concurrency
    /\ mainPc = "sem"
    /\ game \in Jobs

\* C9: a retry counter starts at 0, changes only by +1 in the callback of an
\* attempt that ended with an engine error and requeues the job, never exceeds
\* max_retries, and a job is dispatched at most max_retries + 1 times.
C9_RetryCounterBounded ==
    /\ \A j \in Jobs : retry_counts[j] = 0
    /\ [](\A j \in Jobs : retry_counts[j] <= MaxRetries /\ dispatches[j] <= MaxRetries + 1)
    /\ [][\A j \in Jobs :
            retry_counts'[j] # retry_counts[j]
            => /\ retry_counts'[j] = retry_counts[j] + 1
               /\ taskPc[j] = "done" /\ taskOutcome[j] = "engine"
               /\ work_queue' = Append(work_queue, j)]_vars

\* C9 witness: a job has used its whole retry budget and was dispatched max_retries + 1 times.
C9_Witness ==
    \E j \in Jobs : retry_counts[j] = MaxRetries /\ dispatches[j] = MaxRetries + 1

\* C10: the callback of every attempt that ended with an engine error starts
\* retire_and_replace for the failed engine, whether the job is requeued or dropped.
C10_RetireStartedOnEveryEngineError ==
    [][\A j \in Jobs :
         (taskPc[j] = "done" /\ taskOutcome[j] = "engine" /\ taskPc'[j] = "none")
         => retireClose'[taskEngine[j]] = retireClose[taskEngine[j]] + 1]_vars


\* C11: an attempt that fails with a validation (PGN parsing) error is never
\* requeued: its callback leaves the retry counters, the work queue and the
\* retire tasks as they were, records completion exactly once, leaves the job
\* out of the results, and the job never gets another attempt.
C11_ValidationErrorIsTerminal ==
    [][\A j \in Jobs :
        /\ (taskPc[j] = "done" /\ taskOutcome[j] = "pgn" /\ taskPc'[j] = "none")
             => /\ retry_counts' = retry_counts
                /\ work_queue' = work_queue
                /\ retireClose' = retireClose
                /\ task_done_calls'[j] = task_done_calls[j] + 1
                /\ j \notin Range(all_results')
                /\ jobOutcome'[j] = "validation"
        /\ jobOutcome[j] = "validation"
             => /\ taskPc'[j] = "none"
                /\ j \notin Range(work_queue')
                /\ task_done_calls'[j] = 1]_vars

C11_Witness ==
    \E j \in Jobs : /\ jobOutcome[j] = "validation"
                     /\ retry_counts[j] = 0
                     /\ task_done_calls[j] = 1
                     /\ JobTerminal(j)

\* C12: the results of GameProcessorPool.run hold at most one entry per job
\* id, and a job is in them exactly when one of its attempts completed the
\* pipeline with a summary: an entry is only ever appended by the callback of
\* such an attempt, and a job that exhausted its retries, failed validation,
\* was cancelled, was aborted or raised another exception is absent.
C12_ResultsHoldSucceededJobsOnce ==
    /\ [](/\ \A i, k \in 1..Len(all_results) : i # k => all_results[i] # all_results[k]
          /\ \A j \in Jobs : j \in Range(all_results) <=> jobOutcome[j] = "success")
    /\ [][all_results' # all_results
            => \E j \in Jobs : /\ taskPc[j] = "done"
                               /\ taskOutcome[j] = "ok"
                               /\ all_results' = Append(all_results, j)]_vars

C12_Witness ==
    /\ mainPc = "returned"
    /\ \E j \in Jobs : j \in Range(all_results)
    /\ \E j \in Jobs : /\ jobOutcome[j] \in {"exhausted", "validation", "cancelled", "failed"}
                       /\ j \notin Range(all_results)

\* C13: once the cancellation flag is set the scheduler creates no task for a
\* job, whether the consumer loop was waiting in work_queue.get or on the
\* concurrency gate when the flag became set.
C13_NoDispatchAfterCancellation ==
    [][shutdown_event => dispatches' = dispatches]_vars

\* The run under the scheduling of the event loop: every task, callback and
\* coroutine that is ready to run is eventually run, every attempt in flight
\* eventually ends; the cancellation request is never forced to happen.
FairSpec ==
    /\ Spec
    /\ WF_vars(\E S \in SUBSET (1..MaxOpenSize) : EnginePool_Enter(S))
    /\ WF_vars(Filler_Put)
    /\ WF_vars(Filler_End)
    /\ WF_vars(Main_Loop)
    /\ WF_vars(Main_Get)
    /\ WF_vars(Main_Timeout)
    /\ WF_vars(Main_Dispatch)
    /\ WF_vars(Main_Resume)
    /\ \A j \in Jobs : WF_vars(Wrapper_Acquire(j))
    /\ \A j \in Jobs : WF_vars(Wrapper_Wake(j))
    /\ \A j \in Jobs : WF_vars(\E o \in {"ok", "nosummary", "pgn", "engine", "other"} : Wrapper_Finish(j, o))
    /\ \A j \in Jobs : WF_vars(Wrapper_Cancelled(j))
    /\ \A j \in Jobs : WF_vars(DoneCallback(j))
    /\ \A e \in Engines : WF_vars(Retire_Close(e))
    /\ \A e \in Engines : WF_vars(Retire_Remove(e))
    /\ WF_vars(\E c \in BOOLEAN : Retire_Replace(c))

\* C14: from every reachable state of a run, once the cancellation flag is set
\* GameProcessorPool.run eventually returns, with every attempt cancelled and
\* awaited and with results that hold only jobs that succeeded.
C14_RunReturnsAfterCancellation ==
    shutdown_event ~> (/\ mainPc = "returned"
                       /\ Live = {}
                       /\ \A j \in Jobs : j \in Range(all_results) => jobOutcome[j] = "success")

\* C17: when retire_and_replace is called for a failed handle that is still in
\* the owned set and the replacement factory call succeeds, the call completes
\* without error: the replacement is in the owned set and is available (in the
\* availability queue or lent to a job) and the owned set is as large as it
\* was before the call removed the failed handle.
C17_ReplacementIsMadeAvailable ==
    [][(lock # None /\ ~is_closed /\ enginesCreated' = enginesCreated + 1)
        => /\ enginesCreated' \in instances'
           /\ Cardinality(instances') = Cardinality(instances \cup {lock})
           /\ \/ enginesCreated' \in Range(pool')
              \/ \E j \in Jobs : taskPc'[j] = "lent" /\ taskEngine'[j] = enginesCreated']_vars

\* Sum of f over the finite set S
RECURSIVE SumOver(_, _)
SumOver(f, S) ==
    IF S = {} THEN 0
    ELSE LET x == CHOOSE y \in S : TRUE IN f[x] + SumOver(f, S \ {x})

\* retire_and_replace calls that returned at the ValueError branch: the calls
\* started (one per requeue), less those still before the lock and less the
\* handles removed from the owned set (one call each)
RetireNoops ==
    SumOver(retry_counts, Jobs) - SumOver(retireClose, Engines) - SumOver(retireLock, Engines)
        - Cardinality({e \in Engines : engineState[e] # "none" /\ e \notin instances})

\* C18: retire_and_replace called again for a handle that was already removed
\* from the owned set, after or concurrently with the first call, raises
\* nothing, removes nothing from the owned set and creates no replacement: the
\* call returns at the lock with the owned set, the availability queue and the
\* factory untouched, and every handle is removed at most once.
C18_SecondRetireIsNoop ==
    /\ [](RetireNoops >= 0)
    /\ [][\A e \in Engines :
            (retireLock'[e] = retireLock[e] - 1 /\ e \notin instances)
                => /\ instances' = instances
                   /\ pool' = pool
                   /\ enginesCreated' = enginesCreated
                   /\ engineState' = engineState
                   /\ lock' = None]_vars

C18_Witness ==
    /\ RetireNoops >= 1
    /\ lock = None
    /\ \A e \in Engines : retireClose[e] = 0 /\ retireLock[e] = 0

\* C19: when the replacement factory call fails inside retire_and_replace the
\* call raises nothing and ends with the lock released, the owned set is the
\* set before the call less the failed handle, the availability queue is
\* untouched, and no replacement is attempted for that handle again: a handle
\* that left the owned set never returns to it and never takes the lock again.
C19_FailedReplacementShrinksPool ==
    /\ [](lock # None => lock \notin instances)
    /\ [][/\ (lock # None /\ lock' = None /\ enginesCreated' = enginesCreated)
              => /\ instances' = instances
                 /\ lock \notin instances'
                 /\ pool' = pool
                 /\ retireClose' = retireClose /\ retireLock' = retireLock
          /\ \A e \in Engines :
               (engineState[e] # "none" /\ e \notin instances /\ lock # e)
                   => (e \notin instances' /\ lock' # e)
          /\ \A e \in Engines :
               (lock # e /\ lock' = e)
                   => (e \in instances /\ instances' = instances \ {e})]_vars

C19_Witness ==
    /\ mainPc \notin {"init", "aborted"}
    /\ instances = {}
    /\ lock = None
    /\ \A e \in Engines : retireClose[e] = 0 /\ retireLock[e] = 0

\* The handles whose factory call succeeded
Created == {e \in Engines : engineState[e] = "ok"}

\* C20: opening a pool of size N raises only when all N factory calls fail;
\* when k >= 1 of them succeed, open returns with the pool open and exactly
\* those k handles in the owned set and, once each, in the availability queue.
C20_OpenKeepsEveryCreatedHandle ==
    /\ [][(mainPc = "init" /\ mainPc' # "init")
            => (mainPc' = "aborted" <=> \A e \in 1..pool_size : engineState'[e] # "ok")]_vars
    /\ [](mainPc = "loop"
            => /\ Created # {}
               /\ ~is_closed
               /\ instances = Created
               /\ Range(pool) = Created
               /\ Len(pool) = Cardinality(Created))

C20_Witness ==
    /\ pool_size = 5
    /\ mainPc = "loop"
    /\ Cardinality(instances) = 3
    /\ Len(pool) = 3

\* C15: AnalysisOrchestrator.run never lets an exception out: whenever it ends
\* it has returned a RunReport, and the report of the exception handler comes
\* with the cancellation flag set, empty results, processed count 0 and a
\* warning.
C15_RunAlwaysReturnsReport ==
    /\ propagated = "none"
    /\ orchPc # "raised"
    /\ orchPc = "returned" => report # NoReport
    /\ (report # NoReport /\ report.warnings = <<"Fatal error">>)
         => /\ shutdown_event
            /\ report.results = <<>>
            /\ report.processed_game_count = 0

\* C16: once the cancellation flag is set during a run whose writer task was
\* started, AnalysisOrchestrator.run eventually returns a report, whatever the
\* interleaving of the writer task, the done callbacks that enqueue artifacts
\* and the drain of the writer queue.
C16_RunReturnsAfterCancellation ==
    (shutdown_event /\ writerPc # "none") ~> (orchPc = "returned" /\ report # NoReport)

\* C21: an acquire issued while the pool is closed (after close, or before it
\* was ever opened) raises at once: the step of the caller is always possible,
\* ends the attempt without a handle and leaves the availability queue as it
\* was, and never suspends the caller.
C21_AcquireOnClosedPoolRaises ==
    /\ [](\A j \in Jobs :
            (taskPc[j] = "acquire" /\ ~taskCancel[j] /\ is_closed) => ENABLED Wrapper_Acquire(j))
    /\ [][\A j \in Jobs :
            (taskPc[j] = "acquire" /\ ~taskCancel[j] /\ is_closed /\ taskPc'[j] # "acquire")
                => /\ taskPc'[j] = "done"
                   /\ taskEngine'[j] = None
                   /\ taskOutcome'[j] = "other"
                   /\ pool' = pool]_vars

C21_Witness ==
    /\ closePc = "done"
    /\ \E j \in Jobs : /\ taskPc[j] = "done"
                       /\ taskEngine[j] = None
                       /\ taskOutcome[j] = "other"

\* C22: closing the pool closes every handle of the owned set and leaves the
\* pool marked closed with an empty owned set and an empty availability
\* queue; a release or a replacement hand-back made once the pool is marked
\* closed puts nothing on the queue, and after the close both stay empty.
C22_CloseEmptiesPool ==
    /\ [](closePc = "done" => (is_closed /\ instances = {} /\ pool = <<>>))
    /\ [][/\ (closePc = "lock" /\ closePc' = "done")
              => \A e \in instances : engineState'[e] = "closed"
          /\ closePc # "none" => (is_closed' /\ Len(pool') <= Len(pool))
          /\ \A e \in dropped' \ dropped : e \notin Range(pool')]_vars

C22_Witness ==
    /\ closePc = "done"
    /\ instances = {}
    /\ pool = <<>>
    /\ \E e \in dropped : e <= pool_size
    /\ \E e \in dropped : e > pool_size

\* C23: get_analyses_for_fens calls engine.analyze_fens_batch at most once per
\* call, with exactly the positions whose cache keys the batch lookup did not
\* return, and not at all when every key was found or `fens` is empty.
C23_EngineCalledOnceWithMissedPositions ==
    /\ Len(engine_calls) <= 1
    /\ \A i \in 1..Len(engine_calls) :
          Range(engine_calls[i]) = {f \in Range(fens) : <<f, engine_id>> \notin DOMAIN cached_results}
    /\ provPc = "returned" =>
          (engine_calls = <<>> <=> \A f \in Range(fens) : <<f, engine_id>> \in DOMAIN cached_results)
C23_Witness ==
    /\ provPc = "returned"
    /\ cached_results # EmptyDict
    /\ Len(engine_calls) = 1
    /\ Range(engine_calls[1]) # Range(fens)

\* C24: a call that returns gives one result per requested position: the result
\* the batch lookup returned for a hit, the result of this call's engine analysis
\* for a miss; and the cache then has a row for the key of every requested position.
C24_ReturnsEveryPositionAndFillsCache ==
    provPc = "returned" =>
        /\ DOMAIN returned = Range(fens)
        /\ \A f \in Range(fens) :
              /\ <<f, engine_id>> \in DOMAIN cached_results
                    => returned[f] = cached_results[<<f, engine_id>>] /\ returned[f] < calls
              /\ <<f, engine_id>> \notin DOMAIN cached_results
                    => returned[f] = AnalyzeBatch(engine_calls[1], calls)[f]
              /\ cache[<<f, engine_id>>] # NoRow
C24_Witness ==
    /\ provPc = "returned"
    /\ \E f, g \in Range(fens) :
          /\ <<f, engine_id>> \in DOMAIN cached_results
          /\ <<g, engine_id>> \notin DOMAIN cached_results
          /\ returned[f] # returned[g]
    /\ \A f \in Range(fens) : cache[<<f, engine_id>>] # NoRow

\* C25: when store_analyses_batch fails after the engine analysis, the call
\* still returns the merged results (cache hits and fresh results).
C25_StoreFailureStillReturns ==
    [][(provPc = "store" /\ provPc' # "store")
          => /\ provPc' = "returned"
             /\ returned' = ByFen(Merged(cached_results, results_to_store))]_vars

\* C26: in one attempt the driver executes the stages in the order of the
\* pipeline list, each at most once, and starts a stage only when every stage
\* started before it has returned; when the flag is not set, a returning driver
\* has run every stage and the result carries the context as the last stage left it.
C26_StagesRunInOrder ==
    /\ [](/\ Len(executed) <= NumStages
          /\ \A i \in 1..Len(executed) : executed[i] = i
          /\ pipePc = "stage" => stageIdx = Len(executed) /\ stagesReturned = Len(executed) - 1
          /\ (pipePc = "returned" /\ ~shutdown_event)
                => /\ executed = [i \in 1..NumStages |-> i]
                   /\ stagesReturned = NumStages
                   /\ pipeResult = ResultOf(ctx))
    /\ [][Len(executed') = Len(executed) + 1 => stagesReturned' = Len(executed)]_vars
C26_Witness ==
    /\ pipePc = "returned" /\ ~shutdown_event
    /\ Len(executed) = NumStages
    /\ pipeResult.summary /\ pipeResult.annotated_game

\* C27: when the flag is found set before stage i, no stage with index >= i is
\* executed in that attempt, the result has neither summary nor annotated game,
\* and the callback neither appends the attempt to the results, nor reports
\* progress for it, nor puts its game on the writer queue.
C27_AbortedAttemptLeavesNoTrace ==
    abortedAt # 0 =>
        /\ \A s \in Range(executed) : s < abortedAt
        /\ pipePc \in {"returned", "handled"}
        /\ ~pipeResult.summary /\ ~pipeResult.annotated_game
        /\ ~ctx.summary /\ ~ctx.annotated_game
        /\ pipeJob \notin Range(all_results)
        /\ pipeJob \notin Range(pgn_write_queue)
        /\ Len(progress_calls) = Len(all_results)
C27_Witness ==
    /\ abortedAt = SummaryStage
    /\ pipePc = "handled"
    /\ pipeJob = 2
    /\ all_results = <<1>>
    /\ pgn_write_queue = <<1>>
    /\ progress_calls = <<ProgressArgs(<<1>>)>>

\* C28: the progress callback is called once for every job appended to the
\* results and for no other outcome, with (len(all_results), total_games) at
\* the time of the append: the counts passed are 1, 2, ..., k in this order and
\* the last call carries the current number of results.
C28_ProgressOncePerSuccess ==
    /\ [](/\ Len(progress_calls) = Len(all_results)
          /\ \A i \in 1..Len(progress_calls) : progress_calls[i] = <<i, total_games>>)
    /\ [][progress_calls' # progress_calls =>
             \E j \in Jobs :
                /\ taskPc[j] = "done" /\ taskOutcome[j] = "ok" /\ taskPc'[j] = "none"
                /\ all_results' = Append(all_results, j)
                /\ progress_calls' = Append(progress_calls, <<Len(all_results) + 1, total_games>>)]_vars
C28_Witness ==
    /\ mainPc = "returned"
    /\ Len(all_results) = 2
    /\ progress_calls = <<<<1, total_games>>, <<2, total_games>>>>

\* C29: when run() has returned, the report's processed_game_count is the number
\* of jobs whose terminal outcome was success and the length of the report's
\* results; the number of results never decreases during the run.
C29_ProcessedCountEqualsSuccesses ==
    /\ [](orchPc = "returned" =>
             /\ report.processed_game_count = Cardinality({j \in Jobs : jobOutcome[j] = "success"})
             /\ report.processed_game_count = Len(report.results))
    /\ [][Len(all_results') >= Len(all_results)]_vars

\* C30: a failed attempt never ends run(): an attempt that ended with an
\* unclassified exception (one raised while releasing the engine included)
\* makes its job permanently failed, calls task_done once, requeues nothing,
\* and leaves the consumer loop able to dispatch the remaining jobs: a loop
\* waiting at the gate with no attempt outstanding finds a free permit.
C30_JobFailuresStayInsideRun ==
    /\ [][\A j \in Jobs :
            (taskPc[j] = "done" /\ taskOutcome[j] = "other" /\ taskPc'[j] = "none")
                => /\ jobOutcome'[j] = "failed"
                   /\ task_done_calls'[j] = task_done_calls[j] + 1
                   /\ retry_counts' = retry_counts
                   /\ work_queue' = work_queue
                   /\ mainPc' = mainPc]_vars
    /\ [](\A j \in Jobs : jobOutcome[j] = "failed" => task_done_calls[j] = 1)
    /\ []((mainPc = "sem" /\ pending_tasks = {}) => semaphore > 0)

\* C31: in a run without cancellation and without a writer failure the
\* orchestrator goes from the scheduler's return to the drain of the writer
\* queue, to the sentinel, to the end of the writer task, in this order, and
\* run() returns with every forwarded game written exactly once: the sentinel
\* is put only after the scheduler returned and the queue was drained, and a
\* run that reached the scheduler returns unless the flag gets set.
C31_DrainsWriterBeforeReturn ==
    /\ [][(Len(pgn_write_queue') > Len(pgn_write_queue) /\ pgn_write_queue'[Len(pgn_write_queue')] = None)
             => (mainPc = "returned" /\ pgn_unfinished = 0 /\ pgn_write_queue = <<>>)]_vars
    /\ [](\A i, k \in 1..Len(written) : written[i] = written[k] => i = k)
    /\ (orchPc = "sched") ~> (\/ shutdown_event
                              \/ /\ orchPc = "returned"
                                 /\ pgn_write_queue = <<>>
                                 /\ Range(written) \subseteq Range(all_results))

\* C32: when AnalysisOrchestrator.run has returned on a path that opened the
\* cache and the pool (the writer task was started), the pool is closed, owns
\* nothing and no engine it created is still open, the cache's `async with` is
\* left, and the writer task has ended.
C32_ExitTearsEverythingDown ==
    (orchPc = "returned" /\ writerPc # "none") =>
        /\ is_closed
        /\ instances = {}
        /\ pool = <<>>
        /\ \A e \in Engines : engineState[e] \in {"none", "closed"}
        /\ ~cache_open
        /\ writerPc = "finished"
C32_Witness ==
    /\ orchPc = "returned"
    /\ writerCancel /\ writerPc = "finished"
    /\ report = ErrorReport
    /\ \E e \in Engines : engineState[e] = "closed"
    /\ ~cache_open

\* C33: an attempt that ends with an engine error has handed its engine back
\* (to the availability queue, or dropped on a closed pool) and returned its
\* gate permit in the step that ends it; the callback requeues a job only from
\* such an ended attempt; a job in the work queue has no attempt and no engine.
C33_ReleasedBeforeRequeue ==
    /\ [][\A j \in Jobs :
            (taskPc[j] # "done" /\ taskPc'[j] = "done" /\ taskOutcome'[j] = "engine") =>
                /\ semaphore' = semaphore + 1
                /\ taskEngine'[j] # None
                /\ taskEngine'[j] \in Range(pool') \cup dropped']_vars
    /\ [][\A j \in Jobs :
            retry_counts'[j] # retry_counts[j] =>
                /\ taskPc[j] = "done" /\ taskOutcome[j] = "engine"
                /\ taskPc'[j] = "none" /\ taskEngine'[j] = None
                /\ work_queue' = Append(work_queue, j)]_vars
    /\ [](\A i \in 1..Len(work_queue) :
            work_queue[i] # None =>
                taskPc[work_queue[i]] = "none" /\ taskEngine[work_queue[i]] = None)
C33_Witness ==
    \E j \in Jobs :
        /\ retry_counts[j] = 1
        /\ j \in Range(work_queue)
        /\ taskPc[j] = "none"
        /\ semaphore = concurrency

\* C34: when the database raises the lock-contention error in a call of a
\* decorated cache method and the attempt budget is not used up, the wrapper
\* does not let an exception out: it sleeps and calls the method again.
C34_LockErrorIsRetried ==
    [][(/\ retryPc = "calling"
        /\ retryOp \in {"lookup", "store"}
        /\ Len(db_faults') = Len(db_faults) + 1
        /\ db_faults'[Len(db_faults')] = "locked"
        /\ attempt < attempts)
          => retryPc' = "sleeping"]_vars

\* C36: the wrapper calls func at least once and at most `attempts` times; it
\* returns at the first successful call; every call before the last one raised
\* a listed exception; an exception leaves the wrapper only as the outcome of
\* the last call, and a listed one only when that was call number `attempts`.
C36_RetryContract ==
    /\ Len(func_outcomes) <= attempts
    /\ \A i \in 1..(Len(func_outcomes) - 1) : func_outcomes[i] \in Listed(retryOp)
    /\ retryPc \in {"returned", "raised"} => Len(func_outcomes) >= 1
    /\ retryPc = "returned" =>
          /\ func_outcomes[Len(func_outcomes)] = "ok"
          /\ retryExc = "none"
    /\ retryPc = "raised" =>
          /\ retryExc = func_outcomes[Len(func_outcomes)]
          /\ retryExc # "ok"
          /\ retryExc \in Listed(retryOp) => Len(func_outcomes) = attempts
    /\ retryPc \in {"calling", "sleeping"} =>
          /\ \A i \in 1..Len(func_outcomes) : func_outcomes[i] \in Listed(retryOp)
          /\ Len(func_outcomes) = IF retryPc = "calling" THEN attempt - 1 ELSE attempt
C36_Witness ==
    /\ retryPc = "returned"
    /\ retryOp = "generic"
    /\ attempts = 3
    /\ func_outcomes = <<"TimeoutError", "ok">>
    /\ Len(waited) = 1

\* C35: every call of process_game starts from a fresh context for its game
\* (nothing of an earlier call's context is left in it), runs every stage of
\* the pipeline at most once, and the result it returns carries the summary
\* and the annotated game of the context the driver ended with.
C35_ResultIsFinalContext ==
    /\ [][pipeJob' # pipeJob =>
             /\ ctx' = NoContext
             /\ stagesReturned' = 0
             /\ executed' \in {<<>>, <<1>>}
             /\ pipeExc' = "none"]_vars
    /\ [](\A i, k \in 1..Len(executed) : executed[i] = executed[k] => i = k)
    /\ []((pipePc \in {"returned", "handled"} /\ pipeExc = "none") =>
             /\ pipeResult.summary = ctx.summary
             /\ pipeResult.annotated_game = ctx.annotated_game)
C35_Witness ==
    /\ pipePc = "returned"
    /\ pipeJob = 2
    /\ Len(executed) = NumStages
    /\ ctx.summary /\ ctx.annotated_game
    /\ pipeResult.summary /\ pipeResult.annotated_game
    /\ all_results = <<1>>

\* C37: the availability queue never holds more than pool_size handles, and no
\* hand-back fails on a full queue: an attempt that ends holding an engine has
\* put it on the queue (or dropped it on a closed pool), and a replacement
\* created by retire_and_replace on an open pool is on the queue afterwards.
C37_HandBackNeverFindsQueueFull ==
    /\ [](Len(pool) <= pool_size)
    /\ [][\A j \in Jobs :
            (taskPc[j] # "done" /\ taskPc'[j] = "done" /\ taskEngine'[j] # None) =>
                taskEngine'[j] \in Range(pool') \cup dropped']_vars
    /\ [][(enginesCreated' = enginesCreated + 1 /\ ~is_closed) =>
                enginesCreated' \in Range(pool')]_vars

\* C38: when retire_and_replace closes a handle, no job attempt holds that
\* handle: the attempt that reported the error has ended, and the handle is
\* lent to no other attempt.
C38_RetireClosesNoLentHandle ==
    [][\A e \in Engines :
          (engineState[e] # "closed" /\ engineState'[e] = "closed" /\ ~is_closed') =>
              \A j \in Jobs : ~(taskPc[j] = "lent" /\ taskEngine[j] = e)]_vars

\* C39: once every engine the pool created has been retired and no replacement
\* is being made (the owned set is empty on an open pool), the run of
\* GameProcessorPool.run eventually returns.
C39_RunEndsWithoutEngines ==
    (/\ enginesCreated > 0 /\ instances = {} /\ lock = None /\ ~is_closed
     /\ mainPc \notin {"init", "aborted"})
        ~> (mainPc = "returned")

\* C40: for a game with a TimeControl header in which every move carries a
\* clock reading, the time spent on move i is the reading of move i-1 (the
\* base time for the first move) minus the reading of move i plus the increment.
C40_TimeSpentFromPreviousMove ==
    (/\ clockPc = "done"
     /\ time_control # NoHeader
     /\ \A i \in 1..Len(slices) : ParseClk(slices[i].comment) # NoClock)
    => \A i \in 1..Len(slices) :
          time_spent_per_move[i] =
              (IF i = 1 THEN BaseTime(time_control) ELSE ParseClk(slices[i - 1].comment))
              - ParseClk(slices[i].comment) + TimeIncrement(time_control)

====
